---- MODULE Spec2Model ----
(***************************************************************************)
(* SignalsLibrary (slib): slots, signals and the subscriber nodes that     *)
(* link them, as a state machine.  Every function of signals.inl is an     *)
(* operator that maps the program state to the state after the function's  *)
(* next statement; a call in progress is a frame on the calling thread's   *)
(* stack, and the frame's pc is the source line of the statement it        *)
(* executes next ("L112" is signals.inl:112).  A single-threaded public    *)
(* call is one action that runs these steps to the call's return; with two *)
(* threads every step is an action of its own.  Memory is a heap of        *)
(* subscriber records addressed by integers; the sentinel m_head of a      *)
(* signal has a negative address.                                          *)
(***************************************************************************)
EXTENDS Integers, Sequences, FiniteSets, TLC

\* Bounds of the model.
MaxNodes == 5
MaxCalls == 4
MaxSetup == 2
MaxCycle == 6

\* The objects of a run: two signals (each is-a slot) and two plain slots.
\* Connections go from a signal to a plain slot, or from A to B's slot part
\* (a chain); with two threads they go from A to a plain slot.
Sigs == {"A", "B"}
Plain == {"H1", "H2"}
Slots == Plain \cup Sigs
Targets == Plain \cup {"B"}
Pairs == {p \in Sigs \X Targets : p[1] # p[2]}
PairsMT == {"A"} \X Plain
Threads == {1, 2}
Vals == {10, 21}

Null == 0
NoObj == "null"
HeadOf(s) == IF s = "A" THEN -1 ELSE -2
Nodes == 1..MaxNodes
Ptrs == Nodes \cup {HeadOf(s) : s \in Sigs}

VARIABLES
    heap,        \* Ptrs -> subscriber record, with its allocation state
    m_first,     \* slot::m_first
    cache,       \* slot::m_allocator.m_memoryCache
    s_deleted,   \* slot::m_deleted
    g_deleted,   \* signal::m_deleted
    s_mutex,     \* slot::m_mutex
    g_mutex,     \* signal::m_mutex
    alive,       \* lifetime of each object: "alive", "dtor", "dead"
    stack,       \* per thread: the frames of the calls in progress
    log,         \* handler invocations of the latest emit
    STATIC_INT,  \* the global the test's handler stores into
    err,         \* "none", or the fault that stopped the process
    stale,       \* cached records accessed through a dangling pointer
    twice,       \* records deallocated a second time
    call,        \* per thread: its latest public call
    before,      \* the connections as they were when thread 1 made its latest call
    ncalls,      \* public calls made so far
    mode,        \* "single", "setup", "par", "handlers", "cache" or "flags"
    handler,     \* per plain slot: the call its handler makes after static_function2, or none
    visits       \* the nodes the latest emit invoked through

vars == <<heap, m_first, cache, s_deleted, g_deleted, s_mutex, g_mutex, alive,
          stack, log, STATIC_INT, err, stale, twice, call, before, ncalls, mode,
          handler, visits>>

(***************************************************************************)
(* subscriber (signal_slot_subscriber.hpp)                                 *)
(***************************************************************************)
\* Faulty variant of subscriber: the record does not name its slot.
subscriber_unowned(h) ==
    [slot |-> NoObj, signal |-> NoObj, sl_prev |-> Null, sl_next |-> Null,
     sg_prev |-> Null, sg_next |-> Null, st |-> "live"]

\* subscriber(slot_type* _slot) : slot(_slot), signal(nullptr), links null
subscriber(h) ==
    [slot |-> h, signal |-> NoObj, sl_prev |-> Null, sl_next |-> Null,
     sg_prev |-> Null, sg_next |-> Null, st |-> "live"]

\* subscriber(const signal_type* _signal) : slot(nullptr), signal(_signal)
subscriber_head(s) ==
    [slot |-> NoObj, signal |-> s, sl_prev |-> Null, sl_next |-> Null,
     sg_prev |-> Null, sg_next |-> Null, st |-> "live"]

NoMemory ==
    [slot |-> NoObj, signal |-> NoObj, sl_prev |-> Null, sl_next |-> Null,
     sg_prev |-> Null, sg_next |-> Null, st |-> "unalloc"]

\* The chain of signal_list_link.next / slot_list_link.next pointers from n.
RECURSIVE WalkSg(_, _, _)
WalkSg(hp, n, fuel) ==
    IF n = Null \/ fuel = 0 THEN <<>> ELSE <<n>> \o WalkSg(hp, hp[n].sg_next, fuel - 1)

RECURSIVE WalkSl(_, _, _)
WalkSl(hp, n, fuel) ==
    IF n = Null \/ fuel = 0 THEN <<>> ELSE <<n>> \o WalkSl(hp, hp[n].sl_next, fuel - 1)

\* Faulty variant of signal_unbind: the predecessor keeps pointing at the node.
signal_unbind_keeps_prev(hp, n) ==
    LET p == hp[n].sg_prev
        x == hp[n].sg_next
        h2 == IF x # Null THEN [hp EXCEPT ![x].sg_prev = p] ELSE hp
    IN [h2 EXCEPT ![n].sg_prev = Null, ![n].sg_next = Null, ![n].signal = NoObj]

\* subscriber::signal_unbind, signal_slot_subscriber.hpp:72-87
signal_unbind(hp, n) ==
    LET p == hp[n].sg_prev
        x == hp[n].sg_next
        h1 == IF p # Null THEN [hp EXCEPT ![p].sg_next = x] ELSE hp
        h2 == IF x # Null THEN [h1 EXCEPT ![x].sg_prev = p] ELSE h1
    IN [h2 EXCEPT ![n].sg_prev = Null, ![n].sg_next = Null, ![n].signal = NoObj]

\* Faulty variant of slot_unbind: the successor keeps pointing back at the node.
slot_unbind_keeps_next(hp, n) ==
    LET p == hp[n].sl_prev
        x == hp[n].sl_next
        h1 == IF p # Null THEN [hp EXCEPT ![p].sl_next = x] ELSE hp
    IN [h1 EXCEPT ![n].sl_prev = Null, ![n].sl_next = Null]

\* subscriber::slot_unbind, signal_slot_subscriber.hpp:92-106
slot_unbind(hp, n) ==
    LET p == hp[n].sl_prev
        x == hp[n].sl_next
        h1 == IF p # Null THEN [hp EXCEPT ![p].sl_next = x] ELSE hp
        h2 == IF x # Null THEN [h1 EXCEPT ![x].sl_prev = p] ELSE h1
    IN [h2 EXCEPT ![n].sl_prev = Null, ![n].sl_next = Null]

\* The records signal_unbind / slot_unbind read or write, in program order.
signal_unbind_touches(hp, n) ==
    <<n>> \o (IF hp[n].sg_prev # Null THEN <<hp[n].sg_prev>> ELSE <<>>)
          \o (IF hp[n].sg_next # Null THEN <<hp[n].sg_next>> ELSE <<>>)

slot_unbind_touches(hp, n) ==
    <<n>> \o (IF hp[n].sl_prev # Null THEN <<hp[n].sl_prev>> ELSE <<>>)
          \o (IF hp[n].sl_next # Null THEN <<hp[n].sl_next>> ELSE <<>>)

(***************************************************************************)
(* Memory faults.  A dereference of a null pointer, or of memory returned  *)
(* to the backing allocator, is undefined behaviour: the model records     *)
(* which fault it was in err and stops there.  A record that lies          *)
(* destroyed in a slot's cache is still the program's memory: an access    *)
(* through a dangling pointer reads and writes what is there, and the      *)
(* model records the record in stale; a second deallocate of it pushes it  *)
(* to the cache again, and the model records it in twice.                  *)
(***************************************************************************)
Min(S) == CHOOSE a \in S : \A b \in S : a <= b

AccessErr(hp, ptrs) ==
    LET bad == {i \in 1..Len(ptrs) :
                  ptrs[i] = Null \/ hp[ptrs[i]].st \in {"freed", "unalloc"}}
    IN IF bad = {} THEN "none"
       ELSE IF ptrs[Min(bad)] = Null THEN "null_deref" ELSE "use_after_free"

\* The records among ptrs that lie destroyed in a slot's cache.
StaleIn(hp, ptrs) == {ptrs[i] : i \in {j \in 1..Len(ptrs) : hp[ptrs[j]].st = "raw"}}

ObjErr(st, o) ==
    IF o = NoObj THEN "null_deref"
    ELSE IF st.alive[o] = "dead" THEN "use_after_free" ELSE "none"

(***************************************************************************)
(* dynamic_mutex (util/mutex.hpp)                                          *)
(***************************************************************************)
dynamic_mutex(ts) == [m_is_threadsafe |-> ts, owner |-> 0]

\* Faulty variant of lock_returns: lock returns whoever owns the mutex.
lock_returns_always(m) == TRUE

\* std::mutex::lock returns only when no thread owns the mutex.
lock_returns(m) == ~m.m_is_threadsafe \/ m.owner = 0

dm_lock(m, t) == IF m.m_is_threadsafe THEN [m EXCEPT !.owner = t] ELSE m

dm_unlock(m) == IF m.m_is_threadsafe THEN [m EXCEPT !.owner = 0] ELSE m

\* dynamic_mutex::set_threadsafe, mutex.hpp:113-116
set_threadsafe(m, b) == [m EXCEPT !.m_is_threadsafe = b]

(***************************************************************************)
(* cached_allocator (3rdparty/shared_allocator/cached_allocator.hpp) over  *)
(* the backing shared_allocator (shared_allocator.cpp), which hands out    *)
(* each address once.  shared_allocate writes through malloc's result      *)
(* unchecked, so memory exhaustion ends the process: it never returns      *)
(* nullptr.                                                                *)
(***************************************************************************)
Unallocated(hp) == {n \in Nodes : hp[n].st = "unalloc"}

\* shared_allocator::allocate: a fresh address
backing_allocate(hp) == Min(Unallocated(hp))

\* cached_allocator::reserve(1, k): k backing allocations pushed to the cache
RECURSIVE ca_reserve(_, _, _)
ca_reserve(hp, c, k) ==
    IF k = 0 THEN [heap |-> hp, cache |-> c]
    ELSE LET n == backing_allocate(hp)
         IN ca_reserve([hp EXCEPT ![n].st = "raw"], Append(c, n), k - 1)

\* Faulty variant of ca_private_clear: the cached records are kept.
ca_private_clear_nothing(hp, c) == hp

\* Faulty variant of ca_allocate: the cache is not consulted.
ca_allocate_fresh(hp, c) ==
    LET n == backing_allocate(hp)
    IN [node |-> n, heap |-> [hp EXCEPT ![n].st = "raw"], cache |-> c]

\* cached_allocator::allocate(): the cache's back, or a backing allocation
ca_allocate(hp, c) ==
    IF c # <<>>
    THEN [node |-> c[Len(c)], heap |-> hp, cache |-> SubSeq(c, 1, Len(c) - 1)]
    ELSE LET n == backing_allocate(hp)
         IN [node |-> n, heap |-> [hp EXCEPT ![n].st = "raw"], cache |-> c]

\* destroy(n) then cached_allocator::deallocate(n): push_back to the cache
ca_deallocate(hp, c, n) ==
    [heap |-> [hp EXCEPT ![n].st = "raw"], cache |-> Append(c, n)]

\* destroy(n) then cached_allocator::deallocate_force(n): back to the backing allocator
ca_deallocate_force(hp, n) == [hp EXCEPT ![n].st = "freed"]

\* cached_allocator::private_clear: every cached record back to the backing allocator
ca_private_clear(hp, c) ==
    [n \in Ptrs |-> IF \E i \in 1..Len(c) : c[i] = n
                    THEN [hp[n] EXCEPT !.st = "freed"] ELSE hp[n]]

\* A record handed to destroy/deallocate that is not a constructed object was
\* deallocated before.
DeallocatedBefore(hp, n) == hp[n].st # "live"

\* private_clear frees a record twice when the cache holds it twice, or holds a
\* record already returned to the backing allocator.
ClearErr(hp, c) ==
    IF \E i \in 1..Len(c) : hp[c[i]].st = "freed" \/ \E j \in 1..Len(c) : j # i /\ c[j] = c[i]
    THEN "double_free" ELSE "none"

(***************************************************************************)
(* The program state as one record, the stack frames, calls and returns.   *)
(***************************************************************************)
State ==
    [heap |-> heap, m_first |-> m_first, cache |-> cache, s_deleted |-> s_deleted,
     g_deleted |-> g_deleted, s_mutex |-> s_mutex, g_mutex |-> g_mutex, alive |-> alive,
     stack |-> stack, log |-> log, STATIC_INT |-> STATIC_INT, err |-> err,
     stale |-> stale, twice |-> twice, visits |-> visits]

Install(r) ==
    /\ heap' = r.heap
    /\ m_first' = r.m_first
    /\ cache' = r.cache
    /\ s_deleted' = r.s_deleted
    /\ g_deleted' = r.g_deleted
    /\ s_mutex' = r.s_mutex
    /\ g_mutex' = r.g_mutex
    /\ alive' = r.alive
    /\ stack' = r.stack
    /\ log' = r.log
    /\ STATIC_INT' = r.STATIC_INT
    /\ err' = r.err
    /\ stale' = r.stale
    /\ twice' = r.twice
    /\ visits' = r.visits

Frame(op, pc, self, arg, n, x) ==
    [op |-> op, pc |-> pc, self |-> self, arg |-> arg, n |-> n,
     cur |-> Null, nxt |-> Null, x |-> x, lg |-> FALSE]

Depth(st, t) == Len(st.stack[t])
Top(st, t) == st.stack[t][Depth(st, t)]

\* The top frame replaced by f.
WithTop(st, t, f) == [st EXCEPT !.stack[t][Depth(st, t)] = f]
\* The top frame replaced by f, and callee pushed on it.
Push(st, t, f, callee) ==
    [st EXCEPT !.stack[t] = Append([st.stack[t] EXCEPT ![Depth(st, t)] = f], callee)]
\* The top frame popped: the function returns.
Pop(st, t) == [st EXCEPT !.stack[t] = SubSeq(st.stack[t], 1, Depth(st, t) - 1)]
\* The top frame popped, its result stored in the caller's n.
PopResult(st, t, n) ==
    [st EXCEPT !.stack[t] =
        [SubSeq(st.stack[t], 1, Depth(st, t) - 1) EXCEPT ![Depth(st, t) - 1].n = n]]

Fail(st, e) == [st EXCEPT !.err = e]

\* The step dereferences ptrs, in this order, and then leads to next.
Access(st, ptrs, next) ==
    IF AccessErr(st.heap, ptrs) # "none" THEN Fail(st, AccessErr(st.heap, ptrs))
    ELSE [next EXCEPT !.stale = @ \cup StaleIn(st.heap, ptrs)]

\* The step uses object o (reads a member of it).
Use(st, o, next) == IF ObjErr(st, o) # "none" THEN Fail(st, ObjErr(st, o)) ELSE next

\* lock_guard(m_mutex) on a slot's / a signal's mutex (mutex.hpp:144-147): the
\* state is unchanged while the lock does not return.
\* Faulty variant of lock_guard_slot: the guard is entered without the mutex.
lock_guard_slot_unowned(st, t, h, pc) ==
    WithTop(st, t, [Top(st, t) EXCEPT !.pc = pc, !.lg = TRUE])

lock_guard_slot(st, t, h, pc) ==
    IF ~lock_returns(st.s_mutex[h]) THEN st
    ELSE [WithTop(st, t, [Top(st, t) EXCEPT !.pc = pc, !.lg = TRUE])
            EXCEPT !.s_mutex[h] = dm_lock(st.s_mutex[h], t)]

lock_guard_signal(st, t, s, pc) ==
    IF ~lock_returns(st.g_mutex[s]) THEN st
    ELSE [WithTop(st, t, [Top(st, t) EXCEPT !.pc = pc, !.lg = TRUE])
            EXCEPT !.g_mutex[s] = dm_lock(st.g_mutex[s], t)]

\* Faulty variant of lg_unlock_slot: the slot's mutex stays locked.
lg_unlock_slot_never(st, t, h) == st

\* lock_guard::unlock (mutex.hpp:175-182), called explicitly or by ~lock_guard
lg_unlock_slot(st, t, h) ==
    IF Top(st, t).lg THEN [st EXCEPT !.s_mutex[h] = dm_unlock(st.s_mutex[h])] ELSE st

lg_unlock_signal(st, t, s) ==
    IF Top(st, t).lg THEN [st EXCEPT !.g_mutex[s] = dm_unlock(st.g_mutex[s])] ELSE st

(***************************************************************************)
(* Public calls, as records: in a call record self is the signal and arg   *)
(* the slot, whatever the API.                                             *)
(***************************************************************************)
NoCall == [op |-> "none", self |-> NoObj, arg |-> NoObj, x |-> 0]

Call(op, self, arg, x) == [op |-> op, self |-> self, arg |-> arg, x |-> x]

IsDtor(c) == c.op \in {"slot_dtor", "signal_dtor"}
Objs(c) == {c.self, c.arg} \ {NoObj}

EntryFrame(c) ==
    CASE c.op = "signal_connect" -> Frame("signal_connect", "L322", c.self, c.arg, Null, 0)
      [] c.op = "slot_connect" -> Frame("slot_connect", "L155", c.arg, c.self, Null, 0)
      [] c.op = "connect" -> Frame("connect", "call", c.self, c.arg, Null, c.x)
      [] c.op = "signal_disconnect" -> Frame("signal_disconnect", "L332", c.self, c.arg, Null, 0)
      [] c.op = "slot_disconnect" -> Frame("slot_disconnect", "L165", c.arg, c.self, Null, 0)
      [] c.op = "disconnect" -> Frame("disconnect", "call", c.self, c.arg, Null, c.x)
      [] c.op = "slot_disconnect_all" -> Frame("slot_disconnect_all", "L137", c.arg, NoObj, Null, 0)
      [] c.op = "signal_disconnect_all" ->
             Frame("signal_disconnect_all", "L275", c.self, NoObj, Null, 0)
      [] c.op = "emit" -> Frame("emit_", "L352", c.self, NoObj, Null, c.x)
      [] c.op = "signal_connected" -> Frame("signal_connected", "L364", c.self, NoObj, Null, 0)
      [] c.op = "slot_reserve" -> Frame("slot_reserve", "L193", c.arg, NoObj, Null, c.x)
      [] c.op = "slot_dtor" -> Frame("slot_dtor", "L74", c.arg, NoObj, Null, 0)
      [] c.op = "signal_dtor" -> Frame("signal_dtor", "L249", c.self, NoObj, Null, 0)
      [] c.op = "slot_set_threadsafe" ->
             Frame("slot_set_threadsafe", "L104", c.arg, NoObj, Null, c.x)
      [] c.op = "signal_set_threadsafe" ->
             Frame("signal_set_threadsafe", "L262", c.self, NoObj, Null, c.x)

(***************************************************************************)
(* slot (signals.inl:71-223)                                               *)
(***************************************************************************)
\* slot::get_new_subscriber, signals.inl:107-130
get_new_subscriber(st, t) ==
    LET f == Top(st, t)
        h == f.self
    IN CASE f.pc = "L110" ->                             \* lock_guard lg(m_mutex)
              Use(st, h, lock_guard_slot(st, t, h, "L112"))
         [] f.pc = "L112" ->                             \* allocate, construct, link at the head
              IF st.cache[h] = <<>> /\ Unallocated(st.heap) = {} THEN Fail(st, "out_of_memory")
              ELSE LET r == ca_allocate(st.heap, st.cache[h])
                       n == r.node
                       first == st.m_first[h]
                       h1 == [r.heap EXCEPT ![n] = subscriber(h)]
                       h2 == [h1 EXCEPT ![n].sl_next = first]
                       h3 == IF first # Null THEN [h2 EXCEPT ![first].sl_prev = n] ELSE h2
                   IN IF n = Null                        \* if (subscriber == nullptr) return nullptr
                      THEN PopResult(lg_unlock_slot(st, t, h), t, Null)
                      ELSE Access(st, IF first # Null THEN <<first>> ELSE <<>>,
                                  [WithTop(st, t, [f EXCEPT !.pc = "L127", !.n = n])
                                     EXCEPT !.heap = h3, !.cache[h] = r.cache, !.m_first[h] = n])
         [] f.pc = "L127" ->                             \* lg.unlock(); return subscriber
              PopResult(lg_unlock_slot(st, t, h), t, f.n)

\* slot::connect(const signal_type&), signals.inl:152-160
slot_connect(st, t) ==
    LET f == Top(st, t)
    IN CASE f.pc = "L155" ->
              Push(st, t, [f EXCEPT !.pc = "L156"],
                   Frame("get_new_subscriber", "L110", f.self, NoObj, Null, 0))
         [] f.pc = "L156" ->
              IF f.n # Null
              THEN Push(st, t, [f EXCEPT !.pc = "L160"],
                        Frame("signal_insert", "L295", f.arg, NoObj, f.n, 0))
              ELSE WithTop(st, t, [f EXCEPT !.pc = "L160"])
         [] f.pc = "L160" -> Pop(st, t)

\* One pass of the drain loop of slot::disconnect() (signals.inl:138-144) and of
\* slot::~slot (79-85): take the head, advance m_first, slot_unbind.
drain_head(st, t, pcBody, pcExit) ==
    LET f == Top(st, t)
        h == f.self
        cur == st.m_first[h]
    IN IF cur = Null THEN WithTop(st, t, [f EXCEPT !.pc = pcExit])
       ELSE Access(st, <<cur>> \o slot_unbind_touches(st.heap, cur),
                   [WithTop(st, t, [f EXCEPT !.pc = pcBody, !.cur = cur])
                      EXCEPT !.m_first[h] = st.heap[cur].sl_next,
                             !.heap = slot_unbind(st.heap, cur)])

\* Faulty variant of call_remove: the signal is not told to remove the node.
call_remove_skipped(st, t, pcNext) ==
    WithTop(st, t, [Top(st, t) EXCEPT !.pc = pcNext])

\* current->signal->remove(current) (signals.inl:86 and 145)
call_remove(st, t, pcNext) ==
    LET f == Top(st, t)
    IN Access(st, <<f.cur>>,
              IF st.heap[f.cur].signal = NoObj THEN Fail(st, "null_deref")
              ELSE Push(st, t, [f EXCEPT !.pc = pcNext],
                        Frame("signal_remove", "L312", st.heap[f.cur].signal, NoObj, f.cur, 0)))

\* Faulty variant of destroy_deallocate: the record is not pushed to the cache.
destroy_deallocate_lost(st, t, h, n, pcNext) ==
    [WithTop(st, t, [Top(st, t) EXCEPT !.pc = pcNext]) EXCEPT !.heap[n].st = "raw"]

\* m_allocator.destroy(n); m_allocator.deallocate(n)
destroy_deallocate(st, t, h, n, pcNext) ==
    LET r == ca_deallocate(st.heap, st.cache[h], n)
    IN [WithTop(st, t, [Top(st, t) EXCEPT !.pc = pcNext])
          EXCEPT !.heap = r.heap, !.cache[h] = r.cache,
                 !.twice = IF DeallocatedBefore(st.heap, n) THEN @ \cup {n} ELSE @]

\* m_allocator.destroy(n); m_allocator.deallocate_force(n)
destroy_deallocate_force(st, t, n, pcNext) ==
    IF st.heap[n].st = "freed" THEN Fail(st, "double_free")
    ELSE [WithTop(st, t, [Top(st, t) EXCEPT !.pc = pcNext])
            EXCEPT !.heap = ca_deallocate_force(st.heap, n),
                   !.twice = IF DeallocatedBefore(st.heap, n) THEN @ \cup {n} ELSE @]

\* Faulty variant of advance_first: m_first is left on the node.
advance_first_never(first, hp, n) == first

\* if (current == m_first) m_first = current->slot_list_link.next
\* (signals.inl:172-175 and 207-210)
advance_first(first, hp, n) == IF n = first THEN hp[n].sl_next ELSE first

\* slot::disconnect(), signals.inl:132-150
slot_disconnect_all(st, t) ==
    LET f == Top(st, t)
        h == f.self
    IN CASE f.pc = "L137" -> lock_guard_slot(st, t, h, "L138")
         [] f.pc = "L138" -> drain_head(st, t, "L145", "L150")
         [] f.pc = "L145" -> call_remove(st, t, "L147")
         [] f.pc = "L147" -> destroy_deallocate(st, t, h, f.cur, "L138")
         [] f.pc = "L150" -> Pop(lg_unlock_slot(st, t, h), t)        \* ~lock_guard

\* Faulty variant of owned_by: every node matches.
owned_by_any(hp, n, s) == TRUE

\* current->signal == &_signal (signals.inl:170)
owned_by(hp, n, s) == hp[n].signal = s

\* Faulty variant of slot_disconnect: after a node is removed the scan starts
\* again instead of returning.
slot_disconnect_every(st, t) ==
    LET f == Top(st, t)
        h == f.self
    IN CASE f.pc = "L165" -> lock_guard_slot(st, t, h, "L167")
         [] f.pc = "L167" ->
              WithTop(st, t, [f EXCEPT !.pc = "L168", !.cur = st.m_first[h]])
         [] f.pc = "L168" ->
              IF f.cur = Null THEN WithTop(st, t, [f EXCEPT !.pc = "L188"])
              ELSE Access(st, <<f.cur>>,
                          IF owned_by(st.heap, f.cur, f.arg)
                          THEN WithTop(st, t, [f EXCEPT !.pc = "L172"])
                          ELSE WithTop(st, t, [f EXCEPT !.cur = st.heap[f.cur].sl_next]))
         [] f.pc = "L172" ->
              Access(st, slot_unbind_touches(st.heap, f.cur),
                     [WithTop(st, t, [f EXCEPT !.pc = "L178"])
                        EXCEPT !.m_first[h] = advance_first(st.m_first[h], st.heap, f.cur),
                               !.heap = slot_unbind(st.heap, f.cur)])
         [] f.pc = "L178" ->
              Push(st, t, [f EXCEPT !.pc = "L180"],
                   Frame("signal_remove", "L312", f.arg, NoObj, f.cur, 0))
         [] f.pc = "L180" -> destroy_deallocate(st, t, h, f.cur, "L167")
         [] f.pc = "L188" -> Pop(lg_unlock_slot(st, t, h), t)

\* Faulty variant of slot_disconnect: the scan starts at the tail of the list
\* and goes towards the head.
slot_disconnect_from_tail(st, t) ==
    LET f == Top(st, t)
        h == f.self
        list == WalkSl(st.heap, st.m_first[h], MaxNodes)
    IN CASE f.pc = "L165" -> lock_guard_slot(st, t, h, "L167")
         [] f.pc = "L167" ->
              WithTop(st, t, [f EXCEPT !.pc = "L168",
                                       !.cur = IF list = <<>> THEN Null ELSE list[Len(list)]])
         [] f.pc = "L168" ->
              IF f.cur = Null THEN WithTop(st, t, [f EXCEPT !.pc = "L188"])
              ELSE Access(st, <<f.cur>>,
                          IF owned_by(st.heap, f.cur, f.arg)
                          THEN WithTop(st, t, [f EXCEPT !.pc = "L172"])
                          ELSE WithTop(st, t, [f EXCEPT !.cur = st.heap[f.cur].sl_prev]))
         [] f.pc = "L172" ->
              Access(st, slot_unbind_touches(st.heap, f.cur),
                     [WithTop(st, t, [f EXCEPT !.pc = "L178"])
                        EXCEPT !.m_first[h] = advance_first(st.m_first[h], st.heap, f.cur),
                               !.heap = slot_unbind(st.heap, f.cur)])
         [] f.pc = "L178" ->
              Push(st, t, [f EXCEPT !.pc = "L180"],
                   Frame("signal_remove", "L312", f.arg, NoObj, f.cur, 0))
         [] f.pc = "L180" -> destroy_deallocate(st, t, h, f.cur, "L188")
         [] f.pc = "L188" -> Pop(lg_unlock_slot(st, t, h), t)

\* slot::disconnect(const signal_type&), signals.inl:162-188
slot_disconnect(st, t) ==
    LET f == Top(st, t)
        h == f.self
    IN CASE f.pc = "L165" -> lock_guard_slot(st, t, h, "L167")
         [] f.pc = "L167" ->                             \* current = m_first
              WithTop(st, t, [f EXCEPT !.pc = "L168", !.cur = st.m_first[h]])
         [] f.pc = "L168" ->                             \* while / if (current->signal == &_signal)
              IF f.cur = Null THEN WithTop(st, t, [f EXCEPT !.pc = "L188"])
              ELSE Access(st, <<f.cur>>,
                          IF owned_by(st.heap, f.cur, f.arg)
                          THEN WithTop(st, t, [f EXCEPT !.pc = "L172"])
                          ELSE WithTop(st, t, [f EXCEPT !.cur = st.heap[f.cur].sl_next]))
         [] f.pc = "L172" ->                             \* advance m_first; slot_unbind
              Access(st, slot_unbind_touches(st.heap, f.cur),
                     [WithTop(st, t, [f EXCEPT !.pc = "L178"])
                        EXCEPT !.m_first[h] = advance_first(st.m_first[h], st.heap, f.cur),
                               !.heap = slot_unbind(st.heap, f.cur)])
         [] f.pc = "L178" ->                             \* _signal.remove(current)
              Push(st, t, [f EXCEPT !.pc = "L180"],
                   Frame("signal_remove", "L312", f.arg, NoObj, f.cur, 0))
         [] f.pc = "L180" -> destroy_deallocate(st, t, h, f.cur, "L188")
         [] f.pc = "L188" -> Pop(lg_unlock_slot(st, t, h), t)        \* ~lock_guard

\* slot::reserve, signals.inl:190-195
slot_reserve(st, t) ==
    LET f == Top(st, t)
        h == f.self
    IN CASE f.pc = "L193" -> lock_guard_slot(st, t, h, "L194")
         [] f.pc = "L194" ->
              IF Cardinality(Unallocated(st.heap)) < f.x THEN Fail(st, "out_of_memory")
              ELSE LET r == ca_reserve(st.heap, st.cache[h], f.x)
                   IN [WithTop(st, t, [f EXCEPT !.pc = "L195"])
                         EXCEPT !.heap = r.heap, !.cache[h] = r.cache]
         [] f.pc = "L195" -> Pop(lg_unlock_slot(st, t, h), t)

\* Faulty variant of slot_detach: the slot keeps the node.
slot_detach_skipped(st, t) == Pop(st, t)

\* Faulty variant of slot_detach: m_deleted is not tested.
slot_detach_always(st, t) ==
    LET f == Top(st, t)
        h == f.self
    IN CASE f.pc = "L200" -> Use(st, h, WithTop(st, t, [f EXCEPT !.pc = "L205"]))
         [] f.pc = "L205" -> Use(st, h, lock_guard_slot(st, t, h, "L207"))
         [] f.pc = "L207" ->
              LET unbound == [st EXCEPT !.m_first[h] = advance_first(st.m_first[h], st.heap, f.n),
                                        !.heap = slot_unbind(st.heap, f.n)]
              IN Use(st, h, Access(st, slot_unbind_touches(st.heap, f.n),
                                   destroy_deallocate(unbound, t, h, f.n, "L216")))
         [] f.pc = "L216" -> Pop(lg_unlock_slot(st, t, h), t)

\* slot::detach, signals.inl:197-216
slot_detach(st, t) ==
    LET f == Top(st, t)
        h == f.self
    IN CASE f.pc = "L200" ->                             \* if (m_deleted) return
              Use(st, h, IF st.s_deleted[h] THEN Pop(st, t)
                         ELSE WithTop(st, t, [f EXCEPT !.pc = "L205"]))
         [] f.pc = "L205" ->                             \* lock_guard lg(m_mutex)
              Use(st, h, lock_guard_slot(st, t, h, "L207"))
         [] f.pc = "L207" ->                             \* unlink, destroy, deallocate
              LET unbound == [st EXCEPT !.m_first[h] = advance_first(st.m_first[h], st.heap, f.n),
                                        !.heap = slot_unbind(st.heap, f.n)]
              IN Use(st, h, Access(st, slot_unbind_touches(st.heap, f.n),
                                   destroy_deallocate(unbound, t, h, f.n, "L216")))
         [] f.pc = "L216" -> Pop(lg_unlock_slot(st, t, h), t)        \* ~lock_guard

\* slot::~slot, signals.inl:71-93, then ~cached_allocator (cached_allocator.hpp:148-151)
slot_dtor(st, t) ==
    LET f == Top(st, t)
        h == f.self
    IN CASE f.pc = "L74" ->                              \* m_deleted = true
              [WithTop(st, t, [f EXCEPT !.pc = "L76"]) EXCEPT !.s_deleted[h] = TRUE]
         [] f.pc = "L76" ->                              \* m_mutex.lock()
              IF ~lock_returns(st.s_mutex[h]) THEN st
              ELSE [WithTop(st, t, [f EXCEPT !.pc = "L79"])
                      EXCEPT !.s_mutex[h] = dm_lock(st.s_mutex[h], t)]
         [] f.pc = "L79" -> drain_head(st, t, "L86", "L92")
         [] f.pc = "L86" -> call_remove(st, t, "L88")
         [] f.pc = "L88" -> destroy_deallocate_force(st, t, f.cur, "L79")
         [] f.pc = "L92" ->                              \* m_mutex.unlock()
              [WithTop(st, t, [f EXCEPT !.pc = "L93"])
                 EXCEPT !.s_mutex[h] = dm_unlock(st.s_mutex[h])]
         [] f.pc = "L93" ->                              \* the members: ~cached_allocator
              IF ClearErr(st.heap, st.cache[h]) # "none"
              THEN Fail(st, ClearErr(st.heap, st.cache[h]))
              ELSE [Pop(st, t) EXCEPT !.heap = ca_private_clear(st.heap, st.cache[h]),
                                      !.cache[h] = <<>>,
                                      !.alive[h] = IF h \in Plain THEN "dead" ELSE @]

(***************************************************************************)
(* signal (signals.inl:231-373)                                            *)
(***************************************************************************)
\* Faulty variant of link_at_head: m_head is not pointed at the node.
link_at_head_unlinked(hp, head, n, s) ==
    LET old == hp[head].sg_next
        h1 == [hp EXCEPT ![n].sg_next = old]
        h3 == IF old # Null THEN [h1 EXCEPT ![old].sg_prev = n] ELSE h1
    IN [h3 EXCEPT ![n].sg_prev = head, ![n].signal = s]

\* Faulty variant of link_at_head: the node is not stamped with its signal.
link_at_head_unstamped(hp, head, n, s) ==
    LET old == hp[head].sg_next
        h1 == [hp EXCEPT ![n].sg_next = old]
        h2 == [h1 EXCEPT ![head].sg_next = n]
        h3 == IF old # Null THEN [h2 EXCEPT ![old].sg_prev = n] ELSE h2
    IN [h3 EXCEPT ![n].sg_prev = head]

\* Faulty variant of link_at_head: the node is linked after the last one.
link_at_tail(hp, head, n, s) ==
    LET chain == <<head>> \o WalkSg(hp, hp[head].sg_next, MaxNodes)
        last == chain[Len(chain)]
        h1 == [hp EXCEPT ![last].sg_next = n]
    IN [h1 EXCEPT ![n].sg_prev = last, ![n].sg_next = Null, ![n].signal = s]

\* The body of signal::insert, signals.inl:297-306: the node becomes the first
\* of the signal's list.
link_at_head(hp, head, n, s) ==
    LET old == hp[head].sg_next
        h1 == [hp EXCEPT ![n].sg_next = old]
        h2 == [h1 EXCEPT ![head].sg_next = n]
        h3 == IF old # Null THEN [h2 EXCEPT ![old].sg_prev = n] ELSE h2
    IN [h3 EXCEPT ![n].sg_prev = head, ![n].signal = s]

\* signal::insert, signals.inl:292-307
signal_insert(st, t) ==
    LET f == Top(st, t)
        s == f.self
        head == HeadOf(s)
    IN CASE f.pc = "L295" ->                             \* lock_guard lg(m_mutex)
              Use(st, s, lock_guard_signal(st, t, s, "L297"))
         [] f.pc = "L297" ->                             \* thread at the head, stamp the signal
              LET old == st.heap[head].sg_next
              IN Use(st, s, Access(st, <<f.n>> \o (IF old # Null THEN <<old>> ELSE <<>>),
                                   [WithTop(st, t, [f EXCEPT !.pc = "L307"])
                                      EXCEPT !.heap = link_at_head(st.heap, head, f.n, s)]))
         [] f.pc = "L307" -> Pop(lg_unlock_signal(st, t, s), t)      \* ~lock_guard

\* Faulty variant of signal_remove: the node is never unlinked.
signal_remove_never(st, t) == Pop(st, t)

\* Faulty variant of signal_remove: _subscriber->signal is not compared with this.
signal_remove_unchecked(st, t) ==
    LET f == Top(st, t)
        s == f.self
    IN CASE f.pc = "L312" -> Access(st, <<f.n>>, WithTop(st, t, [f EXCEPT !.pc = "L312b"]))
         [] f.pc = "L312b" ->
              Use(st, s, IF ~st.g_deleted[s]
                         THEN WithTop(st, t, [f EXCEPT !.pc = "L314"]) ELSE Pop(st, t))
         [] f.pc = "L314" -> Use(st, s, lock_guard_signal(st, t, s, "L315"))
         [] f.pc = "L315" ->
              Access(st, signal_unbind_touches(st.heap, f.n),
                     [WithTop(st, t, [f EXCEPT !.pc = "L316"])
                        EXCEPT !.heap = signal_unbind(st.heap, f.n)])
         [] f.pc = "L316" -> Pop(lg_unlock_signal(st, t, s), t)

\* signal::remove, signals.inl:309-317
signal_remove(st, t) ==
    LET f == Top(st, t)
        s == f.self
    IN CASE f.pc = "L312" ->                             \* _subscriber->signal == this
              Access(st, <<f.n>>,
                     IF st.heap[f.n].signal = s
                     THEN WithTop(st, t, [f EXCEPT !.pc = "L312b"]) ELSE Pop(st, t))
         [] f.pc = "L312b" ->                            \* && !m_deleted
              Use(st, s, IF ~st.g_deleted[s]
                         THEN WithTop(st, t, [f EXCEPT !.pc = "L314"]) ELSE Pop(st, t))
         [] f.pc = "L314" ->                             \* lock_guard lg(m_mutex)
              Use(st, s, lock_guard_signal(st, t, s, "L315"))
         [] f.pc = "L315" ->                             \* _subscriber->signal_unbind()
              Access(st, signal_unbind_touches(st.heap, f.n),
                     [WithTop(st, t, [f EXCEPT !.pc = "L316"])
                        EXCEPT !.heap = signal_unbind(st.heap, f.n)])
         [] f.pc = "L316" -> Pop(lg_unlock_signal(st, t, s), t)      \* ~lock_guard

\* signal::disconnect() const, signals.inl:272-290
signal_disconnect_all(st, t) ==
    LET f == Top(st, t)
        s == f.self
        head == HeadOf(s)
    IN CASE f.pc = "L275" -> lock_guard_signal(st, t, s, "L277")
         [] f.pc = "L277" ->                             \* current = m_head.signal_list_link.next
              WithTop(st, t, [f EXCEPT !.pc = "L278", !.cur = st.heap[head].sg_next])
         [] f.pc = "L278" ->                             \* next = current->next; signal_unbind
              IF f.cur = Null THEN WithTop(st, t, [f EXCEPT !.pc = "L288"])
              ELSE Access(st, <<f.cur>> \o signal_unbind_touches(st.heap, f.cur),
                          [WithTop(st, t, [f EXCEPT !.pc = "L283",
                                                    !.nxt = st.heap[f.cur].sg_next])
                             EXCEPT !.heap = signal_unbind(st.heap, f.cur)])
         [] f.pc = "L283" ->                             \* current->slot->detach(current); current = next
              Access(st, <<f.cur>>,
                     Push(st, t, [f EXCEPT !.pc = "L278", !.cur = f.nxt],
                          Frame("slot_detach", "L200", st.heap[f.cur].slot, NoObj, f.cur, 0)))
         [] f.pc = "L288" ->                             \* m_head's links = nullptr
              [WithTop(st, t, [f EXCEPT !.pc = "L290"])
                 EXCEPT !.heap[head].sg_prev = Null, !.heap[head].sg_next = Null]
         [] f.pc = "L290" -> Pop(lg_unlock_signal(st, t, s), t)      \* ~lock_guard

\* signal::~signal, signals.inl:246-251, then the base class destructor ~slot
signal_dtor(st, t) ==
    LET f == Top(st, t)
        s == f.self
    IN CASE f.pc = "L249" ->                             \* m_deleted = true
              [WithTop(st, t, [f EXCEPT !.pc = "L250"]) EXCEPT !.g_deleted[s] = TRUE]
         [] f.pc = "L250" ->                             \* disconnect()
              Push(st, t, [f EXCEPT !.pc = "L251"],
                   Frame("signal_disconnect_all", "L275", s, NoObj, Null, 0))
         [] f.pc = "L251" ->                             \* ~slot of the slot part
              Push(st, t, [f EXCEPT !.pc = "end"], Frame("slot_dtor", "L74", s, NoObj, Null, 0))
         [] f.pc = "end" ->                              \* the object's storage ends, m_head with it
              [Pop(st, t) EXCEPT !.heap[HeadOf(s)].st = "freed", !.alive[s] = "dead"]

\* Faulty variant of signal_connect: the new node is not inserted into the
\* signal's list.
signal_connect_uninserted(st, t) ==
    LET f == Top(st, t)
    IN CASE f.pc = "L322" ->
              Push(st, t, [f EXCEPT !.pc = "L323"],
                   Frame("get_new_subscriber", "L110", f.arg, NoObj, Null, 0))
         [] f.pc = "L323" -> WithTop(st, t, [f EXCEPT !.pc = "L327"])
         [] f.pc = "L327" -> Pop(st, t)

\* signal::connect(slot_type&), signals.inl:319-327
signal_connect(st, t) ==
    LET f == Top(st, t)
    IN CASE f.pc = "L322" ->
              Push(st, t, [f EXCEPT !.pc = "L323"],
                   Frame("get_new_subscriber", "L110", f.arg, NoObj, Null, 0))
         [] f.pc = "L323" ->
              IF f.n # Null
              THEN Push(st, t, [f EXCEPT !.pc = "L327"],
                        Frame("signal_insert", "L295", f.self, NoObj, f.n, 0))
              ELSE WithTop(st, t, [f EXCEPT !.pc = "L327"])
         [] f.pc = "L327" -> Pop(st, t)

\* signal::disconnect(slot_type&), signals.inl:329-333
signal_disconnect(st, t) ==
    LET f == Top(st, t)
    IN CASE f.pc = "L332" ->
              Push(st, t, [f EXCEPT !.pc = "L333"],
                   Frame("slot_disconnect", "L165", f.arg, f.self, Null, 0))
         [] f.pc = "L333" -> Pop(st, t)

\* slot::set_threadsafe, signals.inl:101-105; the frame's x is the bool
\* argument, 1 for true.
slot_set_threadsafe(st, t) ==
    LET f == Top(st, t)
    IN [Pop(st, t) EXCEPT !.s_mutex[f.self] = set_threadsafe(@, f.x = 1)]

\* Faulty variant of signal_set_threadsafe: the slot part's mutex is left as
\* it was.
signal_set_threadsafe_own_only(st, t) ==
    LET f == Top(st, t)
    IN CASE f.pc = "L262" -> WithTop(st, t, [f EXCEPT !.pc = "L263"])
         [] f.pc = "L263" ->
              [Pop(st, t) EXCEPT !.g_mutex[f.self] = set_threadsafe(@, f.x = 1)]

\* signal::set_threadsafe, signals.inl:259-264
signal_set_threadsafe(st, t) ==
    LET f == Top(st, t)
    IN CASE f.pc = "L262" ->                             \* parent_type::set_threadsafe
              Push(st, t, [f EXCEPT !.pc = "L263"],
                   Frame("slot_set_threadsafe", "L104", f.self, NoObj, Null, f.x))
         [] f.pc = "L263" ->                             \* m_mutex.set_threadsafe
              [Pop(st, t) EXCEPT !.g_mutex[f.self] = set_threadsafe(@, f.x = 1)]

\* Faulty variant of static_function2: the argument is not doubled.
static_function2_identity(a) == a

\* signal::connected as a call, signals.inl:361-366: the list is read under the
\* lock_guard; signal_connected below is the value it returns.
connected_locked(st, t) ==
    LET f == Top(st, t)
        s == f.self
    IN CASE f.pc = "L364" -> lock_guard_signal(st, t, s, "L365")
         [] f.pc = "L365" -> Pop(lg_unlock_signal(st, t, s), t)      \* ~lock_guard

\* The handler the test binds to a slot: static_function2, test/main.cpp:22-25
static_function2(a) == a * 2

\* Faulty variant of invoke: the handler returns without its call to the library.
invoke_handler_returns(st, t, h, x, back) ==
    IF h \in Sigs
    THEN Push(st, t, back, Frame("private_emit", "L338", h, NoObj, Null, x))
    ELSE [WithTop(st, t, back)
            EXCEPT !.log = Append(st.log, [slot |-> h, arg |-> x, ret |-> static_function2(x)]),
                   !.STATIC_INT = static_function2(x)]

\* Faulty variant of invoke: a handler that has run in this emit is skipped.
invoke_once(st, t, h, x, back) ==
    IF h \in Sigs
    THEN Push(st, t, back, Frame("private_emit", "L338", h, NoObj, Null, x))
    ELSE IF \E i \in 1..Len(st.log) : st.log[i].slot = h THEN WithTop(st, t, back)
    ELSE [WithTop(st, t, back)
            EXCEPT !.log = Append(st.log, [slot |-> h, arg |-> x, ret |-> static_function2(x)]),
                   !.STATIC_INT = static_function2(x)]

\* Faulty variant of invoke: a signal's slot part does not emit.
invoke_plain_only(st, t, h, x, back) ==
    IF h \in Sigs THEN WithTop(st, t, back)
    ELSE [WithTop(st, t, back)
            EXCEPT !.log = Append(st.log, [slot |-> h, arg |-> x, ret |-> static_function2(x)]),
                   !.STATIC_INT = static_function2(x)]

\* delegate::operator() of slot h (delegate.hpp:150-153): a plain slot's handler
\* runs (every plain slot is bound to static_function2, as in test2); a signal's
\* slot part is bound to private_invoke (signals.inl:231-236,
\* 368-373), which runs that signal's private_emit.  A handler is the user's
\* code: after static_function2's body it makes the call handler[h], if any, on
\* objects that still exist.
invoke(st, t, h, x, back) ==
    IF h \in Sigs
    THEN Push(st, t, back, Frame("private_emit", "L338", h, NoObj, Null, x))
    ELSE LET ran == [WithTop(st, t, back)
                       EXCEPT !.log = Append(st.log, [slot |-> h, arg |-> x,
                                                      ret |-> static_function2(x)]),
                              !.STATIC_INT = static_function2(x)]
         IN IF handler[h] # NoCall /\ \A o \in Objs(handler[h]) : st.alive[o] = "alive"
            THEN Push(ran, t, back, EntryFrame(handler[h]))
            ELSE ran

\* What private_emit of signal s invokes through at node n: the node, its
\* allocation state, the slot it names, and whether s's list holds a node of
\* that slot at this moment.
visit(st, s, n) ==
    LET list == WalkSg(st.heap, st.heap[HeadOf(s)].sg_next, MaxNodes)
    IN [node |-> n, st |-> st.heap[n].st, slot |-> st.heap[n].slot, signal |-> s,
        connected |-> \E i \in 1..Len(list) : st.heap[list[i]].slot = st.heap[n].slot]

\* signal::private_emit, signals.inl:335-347; emit_ and operator() (349-359)
\* forward to it.
private_emit(st, t) ==
    LET f == Top(st, t)
        s == f.self
        head == HeadOf(s)
    IN CASE f.pc = "L338" -> lock_guard_signal(st, t, s, "L340")
         [] f.pc = "L340" ->                             \* current = m_head.signal_list_link.next
              WithTop(st, t, [f EXCEPT !.pc = "L341", !.cur = st.heap[head].sg_next])
         [] f.pc = "L341" ->                             \* while: next = current->next
              IF f.cur = Null THEN WithTop(st, t, [f EXCEPT !.pc = "L347"])
              ELSE Access(st, <<f.cur>>,
                          WithTop(st, t, [f EXCEPT !.pc = "L344", !.nxt = st.heap[f.cur].sg_next]))
         [] f.pc = "L344" ->                             \* current->slot->operator()(args); current = next
              Access(st, <<f.cur>>,
                     Use(st, st.heap[f.cur].slot,
                         invoke([st EXCEPT !.visits = Append(@, visit(st, s, f.cur))],
                                t, st.heap[f.cur].slot, f.x,
                                [f EXCEPT !.pc = "L341", !.cur = f.nxt])))
         [] f.pc = "L347" -> Pop(lg_unlock_signal(st, t, s), t)      \* ~lock_guard

\* emit_ and operator(), signals.inl:349-359
emit_(st, t) ==
    LET f == Top(st, t)
    IN CASE f.pc = "L352" ->
              Push(st, t, [f EXCEPT !.pc = "L353"],
                   Frame("private_emit", "L338", f.self, NoObj, Null, f.x))
         [] f.pc = "L353" -> Pop(st, t)

(***************************************************************************)
(* The free helpers (connect_disconnect.hpp); the frame's x is the line of *)
(* the overload.                                                           *)
(***************************************************************************)
\* Faulty variant of connect: the helper returns without connecting.
connect_nothing(st, t) == Pop(st, t)

\* connect(signal, slot), connect(slot, signal), connect(signal, signal): 40-64
connect(st, t) ==
    LET f == Top(st, t)
    IN CASE f.pc = "call" ->                             \* _signal.connect(_slot)
              Push(st, t, [f EXCEPT !.pc = "ret"],
                   Frame("signal_connect", "L322", f.self, f.arg, Null, 0))
         [] f.pc = "ret" -> Pop(st, t)

\* disconnect(signal, slot), disconnect(slot, signal), disconnect(signal, signal): 72-96
disconnect(st, t) ==
    LET f == Top(st, t)
    IN CASE f.pc = "call" ->                             \* _slot.disconnect(_signal)
              Push(st, t, [f EXCEPT !.pc = "ret"],
                   Frame("slot_disconnect", "L165", f.arg, f.self, Null, 0))
         [] f.pc = "ret" -> Pop(st, t)

(***************************************************************************)
(* One statement of thread t's innermost call, and a call run to its       *)
(* return.                                                                 *)
(***************************************************************************)
step(st, t) ==
    LET op == Top(st, t).op
    IN CASE op = "get_new_subscriber" -> get_new_subscriber(st, t)
         [] op = "slot_connect" -> slot_connect(st, t)
         [] op = "slot_disconnect_all" -> slot_disconnect_all(st, t)
         [] op = "slot_disconnect" -> slot_disconnect(st, t)
         [] op = "slot_reserve" -> slot_reserve(st, t)
         [] op = "slot_detach" -> slot_detach(st, t)
         [] op = "slot_dtor" -> slot_dtor(st, t)
         [] op = "signal_insert" -> signal_insert(st, t)
         [] op = "signal_remove" -> signal_remove(st, t)
         [] op = "signal_disconnect_all" -> signal_disconnect_all(st, t)
         [] op = "signal_dtor" -> signal_dtor(st, t)
         [] op = "signal_connect" -> signal_connect(st, t)
         [] op = "signal_disconnect" -> signal_disconnect(st, t)
         [] op = "private_emit" -> private_emit(st, t)
         [] op = "emit_" -> emit_(st, t)
         [] op = "signal_connected" -> connected_locked(st, t)
         [] op = "slot_set_threadsafe" -> slot_set_threadsafe(st, t)
         [] op = "signal_set_threadsafe" -> signal_set_threadsafe(st, t)
         [] op = "connect" -> connect(st, t)
         [] op = "disconnect" -> disconnect(st, t)

\* Thread t runs alone until its call returns, faults, or waits for a mutex
\* that nobody will release.
RECURSIVE Run(_, _)
Run(st, t) ==
    IF st.stack[t] = <<>> \/ st.err # "none" THEN st
    ELSE LET nx == step(st, t)
         IN IF nx = st THEN st ELSE Run(nx, t)

(***************************************************************************)
(* What a caller can observe.                                              *)
(***************************************************************************)
\* The nodes of signal s from m_head onward, and of slot h from m_first onward.
SigList(s) == WalkSg(heap, heap[HeadOf(s)].sg_next, MaxNodes)
SlotList(h) == WalkSl(heap, m_first[h], MaxNodes)

\* The slots signal s delivers to, in list order; the signals slot h is linked to.
SigSlots(s) == [i \in 1..Len(SigList(s)) |-> heap[SigList(s)[i]].slot]
SlotSigs(h) == [i \in 1..Len(SlotList(h)) |-> heap[SlotList(h)[i]].signal]
\* The records each slot's allocator caches, and the number of backing
\* allocations made so far (the backing allocator hands out each address once).
Allocated == Cardinality(Nodes \ Unallocated(heap))
Links ==
    [sig |-> [s \in Sigs |-> SigSlots(s)], slot |-> [h \in Slots |-> SlotSigs(h)],
     cached |-> cache, allocated |-> Allocated]

\* slot::connected, signals.inl:218-223
slot_connected(h) == m_first[h] # Null
\* Faulty variant of signal_connected: the sentinel's other link is tested.
signal_connected_prev(s) == heap[HeadOf(s)].sg_prev # Null

\* signal::connected, signals.inl:361-366
signal_connected(s) == heap[HeadOf(s)].sg_next # Null

(***************************************************************************)
(* Construction: the objects H1, H2, A, B, in this order; every slot       *)
(* constructor reserves one node (signals.inl:42).                         *)
(***************************************************************************)
CtorOrder == <<"H1", "H2", "A", "B">>

RECURSIVE Construct(_, _, _)
Construct(hp, c, i) ==
    IF i > Len(CtorOrder) THEN [heap |-> hp, cache |-> c]
    ELSE LET r == ca_reserve(hp, <<>>, 1)
         IN Construct(r.heap, [c EXCEPT ![CtorOrder[i]] = r.cache], i + 1)

Constructed ==
    Construct([p \in Ptrs |-> IF p \in Nodes THEN NoMemory
                              ELSE subscriber_head(CHOOSE s \in Sigs : HeadOf(s) = p)],
              [h \in Slots |-> <<>>], 1)

InitObjects(ts) ==
    /\ heap = Constructed.heap
    /\ cache = Constructed.cache
    /\ m_first = [h \in Slots |-> Null]
    /\ s_deleted = [h \in Slots |-> FALSE]
    /\ g_deleted = [s \in Sigs |-> FALSE]
    /\ s_mutex = [h \in Slots |-> dynamic_mutex(ts)]
    /\ g_mutex = [s \in Sigs |-> dynamic_mutex(ts)]
    /\ alive = [o \in Slots |-> "alive"]
    /\ stack = [t \in Threads |-> <<>>]
    /\ log = <<>>
    /\ STATIC_INT = 0
    /\ err = "none"
    /\ stale = {}
    /\ twice = {}
    /\ call = [t \in Threads |-> NoCall]
    /\ before = [sig |-> [s \in Sigs |-> <<>>], slot |-> [h \in Slots |-> <<>>],
                 cached |-> Constructed.cache, allocated |-> Len(CtorOrder)]
    /\ ncalls = 0
    /\ visits = <<>>

\* One thread; the objects are built thread-safe or not (signal(bool)).
NoHandlers == [h \in Plain |-> NoCall]

Init == \E ts \in BOOLEAN : InitObjects(ts) /\ mode = "single" /\ handler = NoHandlers

\* Two threads; every mutex is thread-safe.
InitMT == InitObjects(TRUE) /\ mode = "setup" /\ handler = NoHandlers

(***************************************************************************)
(* Public calls.                                                           *)
(***************************************************************************)
\* A call is made on objects that exist; a destructor runs on an object no
\* other thread's call in progress names.
Allowed(t, c) ==
    /\ \A o \in Objs(c) : alive[o] = "alive"
    /\ IsDtor(c) => \A u \in Threads \ {t} : stack[u] = <<>> \/ Objs(c) \cap Objs(call[u]) = {}

\* The state in which thread t has entered call c.
Entered(t, c) ==
    [State EXCEPT !.stack[t] = <<EntryFrame(c)>>,
                  !.alive = [o \in Slots |-> IF IsDtor(c) /\ o \in Objs(c) THEN "dtor" ELSE @[o]]]

\* With one thread, a public call is one action: from the call to its return.
DoIn(m, max, c) ==
    /\ mode = m
    /\ err = "none"
    /\ stack[1] = <<>>
    /\ ncalls < max
    /\ Allowed(1, c)
    /\ Install(Run([Entered(1, c) EXCEPT !.log = <<>>, !.visits = <<>>], 1))
    /\ call' = [call EXCEPT ![1] = c]
    /\ before' = Links
    /\ ncalls' = ncalls + 1
    /\ UNCHANGED <<mode, handler>>

Do(c) == DoIn("single", MaxCalls, c)

SignalConnect(s, h) == mode = "single" /\ Do(Call("signal_connect", s, h, 0))
SlotConnect(h, s) == mode = "single" /\ Do(Call("slot_connect", s, h, 0))
FreeConnect(s, h, line) == mode = "single" /\ Do(Call("connect", s, h, line))
SignalDisconnect(s, h) == mode = "single" /\ Do(Call("signal_disconnect", s, h, 0))
SlotDisconnect(h, s) == mode = "single" /\ Do(Call("slot_disconnect", s, h, 0))
FreeDisconnect(s, h, line) == mode = "single" /\ Do(Call("disconnect", s, h, line))
SlotDisconnectAll(h) == mode = "single" /\ Do(Call("slot_disconnect_all", NoObj, h, 0))
SignalDisconnectAll(s) == mode = "single" /\ Do(Call("signal_disconnect_all", s, NoObj, 0))
Emit(s, x) == mode = "single" /\ Do(Call("emit", s, NoObj, x))
SlotDtor(h) == mode = "single" /\ Do(Call("slot_dtor", NoObj, h, 0))
SignalDtor(s) == mode = "single" /\ Do(Call("signal_dtor", s, NoObj, 0))

\* The overloads of the free helpers that take signal s and slot h.
ConnectOverloads(h) == IF h \in Sigs THEN {43, 53, 63} ELSE {43, 53}
DisconnectOverloads(h) == IF h \in Sigs THEN {75, 85, 95} ELSE {75, 85}

Next ==
    \/ \E p \in Pairs : SignalConnect(p[1], p[2])
    \/ \E p \in Pairs : SlotConnect(p[2], p[1])
    \/ \E p \in Pairs : \E line \in ConnectOverloads(p[2]) : FreeConnect(p[1], p[2], line)
    \/ \E p \in Pairs : SignalDisconnect(p[1], p[2])
    \/ \E p \in Pairs : SlotDisconnect(p[2], p[1])
    \/ \E p \in Pairs : \E line \in DisconnectOverloads(p[2]) : FreeDisconnect(p[1], p[2], line)
    \/ \E h \in Targets : SlotDisconnectAll(h)
    \/ \E s \in Sigs : SignalDisconnectAll(s)
    \/ \E s \in Sigs, x \in Vals : Emit(s, x)
    \/ \E h \in Plain : SlotDtor(h)
    \/ \E s \in Sigs : SignalDtor(s)

Spec == Init /\ [][Next]_vars

(***************************************************************************)
(* One slot's allocator in use: up to MaxCycle calls that connect signal A *)
(* and a plain slot, disconnect them, reserve records for the slot, or     *)
(* destroy the slot or the signal.                                         *)
(***************************************************************************)
PairsCache == {"A"} \X Plain
ReserveCounts == 0..2

InitCache == \E ts \in BOOLEAN : InitObjects(ts) /\ mode = "cache" /\ handler = NoHandlers

CacheConnect(s, h) ==
    mode = "cache" /\ DoIn("cache", MaxCycle, Call("signal_connect", s, h, 0))
CacheDisconnect(h, s) ==
    mode = "cache" /\ DoIn("cache", MaxCycle, Call("slot_disconnect", s, h, 0))
CacheDisconnectAll(h) ==
    mode = "cache" /\ DoIn("cache", MaxCycle, Call("slot_disconnect_all", NoObj, h, 0))
Reserve(h, k) ==
    mode = "cache" /\ DoIn("cache", MaxCycle, Call("slot_reserve", NoObj, h, k))
CacheSlotDtor(h) ==
    mode = "cache" /\ DoIn("cache", MaxCycle, Call("slot_dtor", NoObj, h, 0))
CacheSignalDtor(s) ==
    mode = "cache" /\ DoIn("cache", MaxCycle, Call("signal_dtor", s, NoObj, 0))

NextCache ==
    \/ \E p \in PairsCache : CacheConnect(p[1], p[2])
    \/ \E p \in PairsCache : CacheDisconnect(p[2], p[1])
    \/ \E h \in Plain : CacheDisconnectAll(h)
    \/ \E h \in Plain, k \in ReserveCounts : Reserve(h, k)
    \/ \E h \in Plain : CacheSlotDtor(h)
    \/ CacheSignalDtor("A")

SpecCache == InitCache /\ [][NextCache]_vars

(***************************************************************************)
(* Handlers that call the library.  H2's handler, after static_function2,  *)
(* disconnects H1 or itself from A, disconnects H1 from everything,        *)
(* connects H1 to A, destroys H1, or calls A itself: A.disconnect(),       *)
(* A.connected() or A.emit(); H1's handler makes no call.  Signal A is     *)
(* connected to the plain slots and emitted.  A handler that emits the     *)
(* signal that invoked it recurses without end unless the signal's lock    *)
(* stops it: that handler is bound to thread-safe objects only.            *)
(***************************************************************************)
HandlerCalls ==
    {NoCall,
     Call("slot_disconnect", "A", "H1", 0),
     Call("slot_disconnect", "A", "H2", 0),
     Call("slot_disconnect_all", NoObj, "H1", 0),
     Call("signal_connect", "A", "H1", 0),
     Call("slot_dtor", NoObj, "H1", 0),
     Call("signal_disconnect_all", "A", NoObj, 0),
     Call("signal_connected", "A", NoObj, 0),
     Call("emit", "A", NoObj, 10)}

Handlers == {hs \in [Plain -> HandlerCalls] : hs["H1"] = NoCall}

InitHandlers ==
    \E ts \in BOOLEAN, hs \in Handlers :
        /\ hs["H2"].op = "emit" => ts
        /\ InitObjects(ts) /\ mode = "handlers" /\ handler = hs

HandlerConnect(s, h) ==
    mode = "handlers" /\ DoIn("handlers", MaxCalls, Call("signal_connect", s, h, 0))
HandlerEmit(s, x) ==
    mode = "handlers" /\ DoIn("handlers", MaxCalls, Call("emit", s, NoObj, x))

NextHandlers ==
    \/ \E p \in PairsCache : HandlerConnect(p[1], p[2])
    \/ \E x \in Vals : HandlerEmit("A", x)

SpecHandlers == InitHandlers /\ [][NextHandlers]_vars

(***************************************************************************)
(* The thread-safety flags.  Every object is constructed with the same     *)
(* flag (slot(bool), signal(bool)); set_threadsafe is then called on       *)
(* signals, on plain slots and on the slot part of a signal (to_slot()),   *)
(* between connects and emits of A.                                        *)
(***************************************************************************)
BoolArg(b) == IF b THEN 1 ELSE 0

InitFlags == \E ts \in BOOLEAN : InitObjects(ts) /\ mode = "flags" /\ handler = NoHandlers

SignalSetThreadsafe(s, b) ==
    mode = "flags"
      /\ DoIn("flags", MaxCalls, Call("signal_set_threadsafe", s, NoObj, BoolArg(b)))
SlotSetThreadsafe(h, b) ==
    mode = "flags"
      /\ DoIn("flags", MaxCalls, Call("slot_set_threadsafe", NoObj, h, BoolArg(b)))
FlagsConnect(s, h) ==
    mode = "flags" /\ DoIn("flags", MaxCalls, Call("signal_connect", s, h, 0))
FlagsEmit(s, x) ==
    mode = "flags" /\ DoIn("flags", MaxCalls, Call("emit", s, NoObj, x))

NextFlags ==
    \/ \E s \in Sigs, b \in BOOLEAN : SignalSetThreadsafe(s, b)
    \/ \E h \in Slots, b \in BOOLEAN : SlotSetThreadsafe(h, b)
    \/ \E p \in PairsCache : FlagsConnect(p[1], p[2])
    \/ FlagsEmit("A", 10)

SpecFlags == InitFlags /\ [][NextFlags]_vars

(***************************************************************************)
(* Two threads.  Thread 1 first wires up to MaxSetup connections; then     *)
(* each thread makes one public call, and every statement of it is a step  *)
(* the other thread's steps interleave with.                               *)
(***************************************************************************)
Wire(s, h) ==
    /\ mode = "setup"
    /\ ncalls < MaxSetup
    /\ Install(Run(Entered(1, Call("signal_connect", s, h, 0)), 1))
    /\ ncalls' = ncalls + 1
    /\ UNCHANGED <<call, before, mode, handler>>

Spawn ==
    /\ mode = "setup"
    /\ mode' = "par"
    /\ UNCHANGED <<heap, m_first, cache, s_deleted, g_deleted, s_mutex, g_mutex, alive,
                   stack, log, STATIC_INT, err, stale, twice, call, before, ncalls,
                   handler, visits>>

ParCalls ==
    {Call("signal_connect", p[1], p[2], 0) : p \in PairsMT}
      \cup {Call("slot_disconnect", p[1], p[2], 0) : p \in PairsMT}
      \cup {Call("slot_disconnect_all", NoObj, h, 0) : h \in Plain}
      \cup {Call("slot_dtor", NoObj, h, 0) : h \in Plain}
      \cup {Call("signal_disconnect_all", "A", NoObj, 0), Call("signal_dtor", "A", NoObj, 0),
            Call("emit", "A", NoObj, 21)}

\* Thread t enters its call.
Begin(t, c) ==
    /\ mode = "par"
    /\ err = "none"
    /\ call[t] = NoCall
    /\ Allowed(t, c)
    /\ Install(Entered(t, c))
    /\ call' = [call EXCEPT ![t] = c]
    /\ UNCHANGED <<before, ncalls, mode, handler>>

\* Thread t executes the next statement of function op; a lock that does not
\* return is no step.
Step(t, op) ==
    /\ mode = "par"
    /\ err = "none"
    /\ stack[t] # <<>>
    /\ Top(State, t).op = op
    /\ step(State, t) # State
    /\ Install(step(State, t))
    /\ UNCHANGED <<call, before, ncalls, mode, handler>>

StepSignalConnect(t) == Step(t, "signal_connect")
StepGetNewSubscriber(t) == Step(t, "get_new_subscriber")
StepInsert(t) == Step(t, "signal_insert")
StepSlotDisconnect(t) == Step(t, "slot_disconnect")
StepRemove(t) == Step(t, "signal_remove")
StepSlotDisconnectAll(t) == Step(t, "slot_disconnect_all")
StepSignalDisconnectAll(t) == Step(t, "signal_disconnect_all")
StepDetach(t) == Step(t, "slot_detach")
StepEmit(t) == Step(t, "emit_")
StepPrivateEmit(t) == Step(t, "private_emit")
StepSlotDtor(t) == Step(t, "slot_dtor")
StepSignalDtor(t) == Step(t, "signal_dtor")

NextMT ==
    \/ \E p \in PairsMT : Wire(p[1], p[2])
    \/ Spawn
    \/ \E t \in Threads, c \in ParCalls : Begin(t, c)
    \/ \E t \in Threads : StepSignalConnect(t)
    \/ \E t \in Threads : StepGetNewSubscriber(t)
    \/ \E t \in Threads : StepInsert(t)
    \/ \E t \in Threads : StepSlotDisconnect(t)
    \/ \E t \in Threads : StepRemove(t)
    \/ \E t \in Threads : StepSlotDisconnectAll(t)
    \/ \E t \in Threads : StepSignalDisconnectAll(t)
    \/ \E t \in Threads : StepDetach(t)
    \/ \E t \in Threads : StepEmit(t)
    \/ \E t \in Threads : StepPrivateEmit(t)
    \/ \E t \in Threads : StepSlotDtor(t)
    \/ \E t \in Threads : StepSignalDtor(t)

SpecMT == InitMT /\ [][NextMT]_vars

(***************************************************************************)
(* Two threads on objects of either kind, thread-safe or not, with no      *)
(* wiring beforehand: each thread makes one connect or disconnect, and the *)
(* two signals may connect to each other's slot part from both sides.      *)
(***************************************************************************)
LockCalls ==
    {Call("signal_connect", "A", "B", 0), Call("signal_connect", "B", "A", 0),
     Call("slot_connect", "A", "H1", 0), Call("slot_disconnect", "A", "H1", 0)}

InitLock == \E ts \in BOOLEAN : InitObjects(ts) /\ mode = "par" /\ handler = NoHandlers

StepSlotConnect(t) == Step(t, "slot_connect")

NextLock ==
    \/ \E t \in Threads, c \in LockCalls : Begin(t, c)
    \/ \E t \in Threads : StepSignalConnect(t)
    \/ \E t \in Threads : StepSlotConnect(t)
    \/ \E t \in Threads : StepGetNewSubscriber(t)
    \/ \E t \in Threads : StepInsert(t)
    \/ \E t \in Threads : StepSlotDisconnect(t)
    \/ \E t \in Threads : StepRemove(t)

SpecLock == InitLock /\ [][NextLock]_vars

\* The functions that hold the lock_guard of their slot, and of their signal.
SlotSide ==
    {"get_new_subscriber", "slot_disconnect_all", "slot_disconnect", "slot_reserve",
     "slot_detach"}
SignalSide ==
    {"signal_insert", "signal_remove", "signal_disconnect_all", "private_emit",
     "signal_connected"}

\* Thread t is between lock() and the matching unlock() of slot h's m_mutex:
\* in the scope of a locked lock_guard, or in ~slot between lines 76 and 92.
HoldsSlot(t, h) ==
    \E i \in 1..Len(stack[t]) :
        LET f == stack[t][i]
        IN f.self = h /\ \/ f.lg /\ f.op \in SlotSide
                         \/ f.op = "slot_dtor" /\ f.pc \in {"L79", "L86", "L88", "L92"}

\* Thread t is between lock() and the matching unlock() of signal s's m_mutex.
HoldsSignal(t, s) ==
    \E i \in 1..Len(stack[t]) :
        LET f == stack[t][i] IN f.self = s /\ f.lg /\ f.op \in SignalSide

(***************************************************************************)
(* Properties of the single-threaded calls (Spec).  call[1] is the latest  *)
(* call, before the connections as they were when it was made.            *)
(***************************************************************************)
ConnectOps == {"signal_connect", "slot_connect", "connect"}
DisconnectOps == {"signal_disconnect", "slot_disconnect", "disconnect"}

\* The latest call has returned.
Returned == stack[1] = <<>> /\ err = "none"

\* seq without its entries equal to o.
RECURSIVE Without(_, _)
Without(seq, o) ==
    IF seq = <<>> THEN <<>>
    ELSE (IF Head(seq) = o THEN <<>> ELSE <<Head(seq)>>) \o Without(Tail(seq), o)

\* The handlers an emit of a signal with the slots seq reaches, in order: a
\* plain slot's own, and through a signal's slot part those of that signal.
RECURSIVE Reached(_, _)
Reached(links, seq) ==
    IF seq = <<>> THEN <<>>
    ELSE (IF Head(seq) \in Sigs THEN Reached(links, links.sig[Head(seq)]) ELSE <<Head(seq)>>)
           \o Reached(links, Tail(seq))

Invoked == [i \in 1..Len(log) |-> log[i].slot]
Count(seq, o) == Cardinality({i \in 1..Len(seq) : seq[i] = o})

\* C1: after a connect of signal S and slot H, by S.connect(H), H.connect(S) or
\* a free helper, S.connected() and H.connected() are both true.
C1_ConnectedAfterConnect ==
    call[1].op \in ConnectOps /\ Returned
        => signal_connected(call[1].self) /\ slot_connected(call[1].arg)

C1_Witness ==
    /\ call[1] = Call("connect", "A", "H1", 53)
    /\ Returned
    /\ before.sig["A"] = <<>> /\ before.slot["H1"] = <<>>
    /\ signal_connected("A") /\ slot_connected("H1")

\* C2: when the only link of S and the only link of H is one connection between
\* them, a disconnect of the two (H.disconnect(S), S.disconnect(H), a free
\* helper) leaves S.connected() and H.connected() both false.
C2_DisconnectedAfterDisconnect ==
    /\ call[1].op \in DisconnectOps
    /\ Returned
    /\ before.sig[call[1].self] = <<call[1].arg>>
    /\ before.slot[call[1].arg] = <<call[1].self>>
    => ~signal_connected(call[1].self) /\ ~slot_connected(call[1].arg)

C2_Witness ==
    /\ call[1] = Call("signal_disconnect", "B", "H2", 0)
    /\ Returned
    /\ before.sig["B"] = <<"H2">> /\ before.slot["H2"] = <<"B">>
    /\ ~signal_connected("B") /\ ~slot_connected("H2")

\* C5: when H is the only slot on S, after H is destroyed S.connected() is
\* false, and an emit of S invokes nothing and touches no freed node.
C5_SourceEmptyAfterSlotDestroyed ==
    /\ call[1].op = "slot_dtor"
         => \A s \in Sigs :
              before.sig[s] # <<>> /\ (\A i \in 1..Len(before.sig[s]) : before.sig[s][i] = call[1].arg)
                => Returned /\ ~signal_connected(s)
    /\ call[1].op = "emit" /\ before.sig[call[1].self] = <<>>
         => Returned /\ log = <<>> /\ stale = {}

C5_Witness ==
    /\ call[1] = Call("slot_dtor", NoObj, "H1", 0)
    /\ Returned
    /\ before.sig["A"] = <<"H1">>
    /\ ~signal_connected("A")
    /\ heap[1].st = "freed"

\* C6: destroying a signal S that has several slots leaves every slot that had
\* no other source not connected, and every slot with exactly its connections
\* to the other sources.
C6_SlotsKeepOtherSources ==
    call[1].op = "signal_dtor"
        => /\ Returned
           /\ \A h \in Slots \ {call[1].self} :
                /\ SlotSigs(h) = Without(before.slot[h], call[1].self)
                /\ (\A i \in 1..Len(before.slot[h]) : before.slot[h][i] = call[1].self)
                     => ~slot_connected(h)

C6_Witness ==
    /\ call[1] = Call("signal_dtor", "A", NoObj, 0)
    /\ Returned
    /\ before.sig["A"] = <<"H2", "H1">>
    /\ before.slot["H2"] = <<"A", "B">>
    /\ SlotSigs("H2") = <<"B">>
    /\ ~slot_connected("H1")

\* C7: an emit delivers in the reverse of the connection order: a connect puts
\* the slot in front of the signal's list, and an emit invokes in list order.
C7_ReverseConnectionOrder ==
    /\ call[1].op \in ConnectOps /\ Returned
         => SigSlots(call[1].self) = <<call[1].arg>> \o before.sig[call[1].self]
    /\ call[1].op = "emit" /\ Returned
         => Invoked = Reached(before, before.sig[call[1].self])

C7_Witness ==
    /\ call[1] = Call("emit", "A", NoObj, 21)
    /\ Returned
    /\ before.sig["A"] = <<"H2", "H1">>
    /\ before.slot["H1"] = <<"A">> /\ before.slot["H2"] = <<"A">>
    /\ Invoked = <<"H2", "H1">>
    /\ ncalls = 3

\* C8: connecting the same signal and slot twice makes two nodes, and an emit
\* invokes the handler twice: once per node.
C8_OncePerNode ==
    /\ call[1].op \in ConnectOps /\ Returned
         => Count(SigSlots(call[1].self), call[1].arg)
              = Count(before.sig[call[1].self], call[1].arg) + 1
    /\ call[1].op = "emit" /\ Returned
         => \A h \in Plain :
              Count(Invoked, h) = Count(Reached(before, before.sig[call[1].self]), h)

C8_Witness ==
    /\ call[1] = Call("emit", "A", NoObj, 10)
    /\ Returned
    /\ before.sig["A"] = <<"H1", "H1">>
    /\ Len(SigList("A")) = 2 /\ SigList("A")[1] # SigList("A")[2]
    /\ Invoked = <<"H1", "H1">>

\* C9: with one slot connected once, emit(x) invokes the handler exactly once,
\* with x: the doubling handler returns 42 for emit(21) and stores 20 for
\* emit(10).
C9_OneSlotOneCall ==
    /\ call[1].op = "emit"
    /\ Len(before.sig[call[1].self]) = 1
    /\ before.sig[call[1].self][1] \in Plain
    => /\ Returned
       /\ Len(log) = 1
       /\ log[1].slot = before.sig[call[1].self][1]
       /\ log[1].arg = call[1].x
       /\ call[1].x = 21 => log[1].ret = 42 /\ STATIC_INT = 42
       /\ call[1].x = 10 => log[1].ret = 20 /\ STATIC_INT = 20

C9_Witness ==
    /\ call[1] = Call("emit", "B", NoObj, 10)
    /\ Returned
    /\ before.sig["B"] = <<"H1">>
    /\ log = <<[slot |-> "H1", arg |-> 10, ret |-> 20]>>
    /\ STATIC_INT = 20

\* C10: with A connected to B.to_slot() and the slot C connected to B, A.emit(v)
\* invokes C's handler exactly once, with v.
C10_ChainForwards ==
    /\ call[1].op = "emit"
    /\ before.sig[call[1].self] = <<"B">>
    /\ Len(before.sig["B"]) = 1
    => /\ Returned
       /\ Len(log) = 1
       /\ log[1].slot = before.sig["B"][1]
       /\ log[1].arg = call[1].x

C10_Witness ==
    /\ call[1] = Call("emit", "A", NoObj, 21)
    /\ Returned
    /\ before.sig["A"] = <<"B">> /\ before.sig["B"] = <<"H2">>
    /\ log = <<[slot |-> "H2", arg |-> 21, ret |-> 42]>>

\* Every entry of seq is o, and there is one.
Only(seq, o) == seq # <<>> /\ \A i \in 1..Len(seq) : seq[i] = o

\* C11: with A connected to B.to_slot() and C connected to B, destroying B
\* leaves no node of B in A's list and none in C's list: A and C keep exactly
\* their other links, A.connected() and C.connected() are false when B was
\* their only link, and an emit of a signal left without slots invokes nothing.
C11_MiddleOfChainDestroyed ==
    /\ call[1].op = "signal_dtor"
         => /\ Returned
            /\ \A n \in Nodes :
                 heap[n].st = "live" => heap[n].slot # call[1].self /\ heap[n].signal # call[1].self
            /\ \A s \in Sigs \ {call[1].self} :
                 /\ SigSlots(s) = Without(before.sig[s], call[1].self)
                 /\ Only(before.sig[s], call[1].self) => ~signal_connected(s)
            /\ \A h \in Slots \ {call[1].self} :
                 /\ Count(SlotSigs(h), call[1].self) = 0
                 /\ Only(before.slot[h], call[1].self) => ~slot_connected(h)
    /\ call[1].op = "emit" /\ ~signal_connected(call[1].self)
         => Returned /\ Invoked = <<>> /\ visits = <<>>

C11_Witness ==
    /\ call[1] = Call("signal_dtor", "B", NoObj, 0)
    /\ Returned
    /\ before.sig["A"] = <<"B">> /\ before.slot["B"] = <<"A">>
    /\ before.sig["B"] = <<"H1">> /\ before.slot["H1"] = <<"B">>
    /\ ~signal_connected("A") /\ ~slot_connected("H1")
    /\ SigList("A") = <<>> /\ SlotList("H1") = <<>>

\* C13: a disconnect of a signal S and a slot H that has no node owned by S (a
\* second disconnect, or a pair never connected) returns and changes nothing:
\* every slot's list, every signal's list and every cache are as before.
C13_DisconnectUnconnectedNoOp ==
    call[1].op \in DisconnectOps /\ Count(before.slot[call[1].arg], call[1].self) = 0
        => /\ Returned
           /\ Links = before
           /\ stale = {} /\ twice = {}

\* H1 was connected and disconnected (its cached record bears its name), H2
\* is connected to A, and A and H1 are disconnected again.
C13_Witness ==
    /\ call[1] = Call("slot_disconnect", "A", "H1", 0)
    /\ Returned
    /\ before.slot["H1"] = <<>> /\ before.sig["A"] = <<"H2">>
    /\ \E i \in 1..Len(cache["H1"]) :
          heap[cache["H1"][i]].slot = "H1" /\ heap[cache["H1"][i]].st = "raw"
    /\ SigSlots("A") = <<"H2">> /\ SlotSigs("H2") = <<"A">> /\ cache = before.cached

\* C14: a disconnect of a signal S and a slot H that has k >= 1 nodes owned by S
\* removes one of them: H has k - 1 nodes owned by S afterwards and S k - 1 nodes
\* of H, H's nodes of other signals and S's nodes of other slots stay as they
\* were, in order, and every other list is unchanged.
C14_DisconnectRemovesOne ==
    call[1].op \in DisconnectOps /\ Count(before.slot[call[1].arg], call[1].self) >= 1
        => /\ Returned
           /\ Count(SlotSigs(call[1].arg), call[1].self)
                = Count(before.slot[call[1].arg], call[1].self) - 1
           /\ Count(SigSlots(call[1].self), call[1].arg)
                = Count(before.sig[call[1].self], call[1].arg) - 1
           /\ Without(SlotSigs(call[1].arg), call[1].self)
                = Without(before.slot[call[1].arg], call[1].self)
           /\ Without(SigSlots(call[1].self), call[1].arg)
                = Without(before.sig[call[1].self], call[1].arg)
           /\ \A h \in Slots \ {call[1].arg} : SlotSigs(h) = before.slot[h]
           /\ \A s \in Sigs \ {call[1].self} : SigSlots(s) = before.sig[s]

\* A was connected to H2 and twice to H1; one disconnect of A and H1 leaves
\* one node of H1, and H2's node.
C14_Witness ==
    /\ call[1] = Call("slot_disconnect", "A", "H1", 0)
    /\ Returned
    /\ before.slot["H1"] = <<"A", "A">> /\ before.sig["A"] = <<"H1", "H1", "H2">>
    /\ SlotSigs("H1") = <<"A">> /\ Len(SlotList("H1")) = 1
    /\ SigSlots("A") = <<"H1", "H2">> /\ SlotSigs("H2") = <<"A">>

\* The entries of seq are distinct records that lie destroyed in a cache.
CachedOnce(seq) ==
    /\ Cardinality({seq[i] : i \in 1..Len(seq)}) = Len(seq)
    /\ \A i \in 1..Len(seq) : heap[seq[i]].st = "raw"

\* C15: H.disconnect() drains H's whole list: H.connected() is false, no
\* signal's list holds a node of H, every signal keeps exactly its nodes of other
\* slots, in order, and every removed node is back in H's cache (the cache
\* grows by the number of removed nodes; no backing allocator is involved).
C15_SlotDisconnectAllDrains ==
    call[1].op = "slot_disconnect_all"
        => /\ Returned
           /\ ~slot_connected(call[1].arg) /\ SlotList(call[1].arg) = <<>>
           /\ \A s \in Sigs : SigSlots(s) = Without(before.sig[s], call[1].arg)
           /\ Len(cache[call[1].arg])
                = Len(before.cached[call[1].arg]) + Len(before.slot[call[1].arg])
           /\ SubSeq(cache[call[1].arg], 1, Len(before.cached[call[1].arg]))
                = before.cached[call[1].arg]
           /\ CachedOnce(cache[call[1].arg])
           /\ \A h \in Slots \ {call[1].arg} :
                SlotSigs(h) = before.slot[h] /\ cache[h] = before.cached[h]
           /\ Allocated = before.allocated

\* H1 was connected to A and to B, H2 to A; H1.disconnect() returns both of
\* H1's nodes to its cache and leaves A with H2.
C15_Witness ==
    /\ call[1] = Call("slot_disconnect_all", NoObj, "H1", 0)
    /\ Returned
    /\ before.slot["H1"] = <<"B", "A">> /\ before.sig["A"] = <<"H1", "H2">>
    /\ before.cached["H1"] = <<>>
    /\ ~slot_connected("H1") /\ Len(cache["H1"]) = 2
    /\ SigSlots("A") = <<"H2">> /\ ~signal_connected("B")

\* C16: S.disconnect() empties S's list: S.connected() is false, no slot's list
\* holds a node of S, every slot keeps exactly its nodes of other signals, in
\* order, and each removed node was deallocated by its slot's detach, into that
\* slot's cache.
C16_SignalDisconnectAllEmpties ==
    call[1].op = "signal_disconnect_all"
        => /\ Returned
           /\ ~signal_connected(call[1].self) /\ SigList(call[1].self) = <<>>
           /\ \A h \in Slots :
                /\ SlotSigs(h) = Without(before.slot[h], call[1].self)
                /\ Len(cache[h]) = Len(before.cached[h]) + Count(before.slot[h], call[1].self)
                /\ SubSeq(cache[h], 1, Len(before.cached[h])) = before.cached[h]
                /\ CachedOnce(cache[h])
           /\ \A s \in Sigs \ {call[1].self} : SigSlots(s) = before.sig[s]
           /\ Allocated = before.allocated

\* A was connected to H1 and H2, and B to H2; A.disconnect() leaves H1 not
\* connected and H2 with its node of B.
C16_Witness ==
    /\ call[1] = Call("signal_disconnect_all", "A", NoObj, 0)
    /\ Returned
    /\ before.sig["A"] = <<"H2", "H1">> /\ before.slot["H2"] = <<"A", "B">>
    /\ before.cached["H1"] = <<>> /\ before.cached["H2"] = <<>>
    /\ ~signal_connected("A") /\ ~slot_connected("H1")
    /\ SlotSigs("H2") = <<"B">> /\ SigSlots("B") = <<"H2">>
    /\ Len(cache["H1"]) = 1 /\ Len(cache["H2"]) = 1

\* The constructed records that name slot h / that signal s owns.
NodesOfSlot(h) == {n \in Nodes : heap[n].st = "live" /\ heap[n].slot = h}
NodesOfSignal(s) == {n \in Nodes : heap[n].st = "live" /\ heap[n].signal = s}

\* C17: whenever no call is in progress, H.connected() is true exactly when H
\* has a node (its list is not empty) and S.connected() exactly when S's list
\* holds a node; the lists hold exactly the constructed records of H and of S;
\* a slot or signal that was never connected reports false.
C17_ConnectedIffListNonEmpty ==
    /\ Returned
         => /\ \A h \in Slots : alive[h] = "alive"
                 => /\ slot_connected(h) <=> NodesOfSlot(h) # {}
                    /\ {SlotList(h)[i] : i \in 1..Len(SlotList(h))} = NodesOfSlot(h)
            /\ \A s \in Sigs : alive[s] = "alive"
                 => /\ signal_connected(s) <=> NodesOfSignal(s) # {}
                    /\ {SigList(s)[i] : i \in 1..Len(SigList(s))} = NodesOfSignal(s)
    /\ ncalls = 0
         => /\ \A h \in Slots : ~slot_connected(h)
            /\ \A s \in Sigs : ~signal_connected(s)

\* After three calls A and H1 are connected, B is not, and H2 is not any
\* more: its record lies in its cache.
C17_Witness ==
    /\ ncalls = 3
    /\ Returned
    /\ signal_connected("A") /\ slot_connected("H1") /\ NodesOfSlot("H1") = {1}
    /\ ~signal_connected("B") /\ ~slot_connected("H2")
    /\ heap[2].slot = "H2" /\ heap[2].st = "raw" /\ cache["H2"] = <<2>>

\* No call is in progress on any thread.
Quiescent == err = "none" /\ \A t \in Threads : stack[t] = <<>>

\* C25: in every quiescent state every node reachable from the sentinel of a
\* live signal S is a constructed record whose signal is S and whose slot is
\* a live slot.
C25_OwningSourceIsListOwner ==
    Quiescent =>
        \A s \in Sigs :
            alive[s] = "alive" =>
                LET list == SigList(s)
                IN \A i \in 1..Len(list) :
                       /\ heap[list[i]].st = "live"
                       /\ heap[list[i]].signal = s
                       /\ heap[list[i]].slot \in Slots /\ alive[heap[list[i]].slot] = "alive"

\* A's list holds nodes of H1 and of B's slot part, B's list a node of H2.
C25_Witness ==
    /\ Quiescent
    /\ Count(SigSlots("A"), "H1") > 0 /\ Count(SigSlots("A"), "B") > 0
    /\ Count(SigSlots("B"), "H2") > 0

\* C26: in every quiescent state every constructed record is in exactly one
\* slot list, once, and that list is the list of the slot it names; it is in at
\* most one signal list, once, and it is in a signal's list exactly when it
\* names a signal, which is that signal.
C26_OneSlotListAtMostOneSignalList ==
    Quiescent =>
        LET slotList == [h \in Slots |-> IF alive[h] # "dead" THEN SlotList(h) ELSE <<>>]
            sigList == [s \in Sigs |-> IF alive[s] # "dead" THEN SigList(s) ELSE <<>>]
        IN \A n \in {m \in Nodes : heap[m].st = "live"} :
               LET inSlots == {h \in Slots : Count(slotList[h], n) > 0}
                   inSigs == {s \in Sigs : Count(sigList[s], n) > 0}
               IN /\ inSlots = {heap[n].slot}
                  /\ Count(slotList[heap[n].slot], n) = 1
                  /\ Cardinality(inSigs) <= 1
                  /\ inSigs # {} <=> heap[n].signal # NoObj
                  /\ \A s \in inSigs : heap[n].signal = s /\ Count(sigList[s], n) = 1

\* H1 has two records, one in A's list and one in B's, after a disconnect put
\* H2's record back into H2's cache.
C26_Witness ==
    /\ Quiescent
    /\ SlotSigs("H1") = <<"B", "A">>
    /\ call[1].op \in DisconnectOps
    /\ before.slot["H2"] # <<>> /\ SlotSigs("H2") = <<>>

\* seq holds no node twice.
NoRepeat(seq) == \A i, j \in 1..Len(seq) : seq[i] = seq[j] => i = j

\* C34: in every quiescent state both lists of every live object are
\* well-formed.  A slot's list, followed from m_first, visits no node twice and
\* ends at a null next; its first node has a null prev and every other node is
\* the next of its prev.  A signal's list, followed from the sentinel, visits
\* no node twice and ends at a null next; its first node's prev is the
\* sentinel, every node is the next of its prev, and the prev of its next
\* when it has one.
C34_ListsWellFormed ==
    Quiescent =>
        /\ \A h \in Slots :
              alive[h] = "alive" =>
                  LET list == SlotList(h)
                  IN /\ NoRepeat(list)
                     /\ \A i \in 1..Len(list) :
                           LET n == list[i]
                           IN /\ i = 1 => heap[n].sl_prev = Null
                              /\ i > 1 => heap[n].sl_prev # Null /\ heap[heap[n].sl_prev].sl_next = n
                              /\ i = Len(list) => heap[n].sl_next = Null
        /\ \A s \in Sigs :
              alive[s] = "alive" =>
                  LET list == SigList(s)
                  IN /\ NoRepeat(list)
                     /\ \A i \in 1..Len(list) :
                           LET n == list[i]
                           IN /\ i = 1 => heap[n].sg_prev = HeadOf(s)
                              /\ heap[n].sg_prev # Null /\ heap[heap[n].sg_prev].sg_next = n
                              /\ heap[n].sg_next = Null \/ heap[heap[n].sg_next].sg_prev = n
                              /\ i = Len(list) => heap[n].sg_next = Null

\* A delivered to three slots and the latest call took the node of the second
\* one out of the middle of A's list.
C34_Witness ==
    /\ Quiescent
    /\ call[1].op \in DisconnectOps
    /\ Len(before.sig["A"]) = 3 /\ before.sig["A"][2] = call[1].arg
    /\ Len(SigList("A")) = 2

\* The nodes of seq, and how many of them satisfy keep.
Range(seq) == {seq[i] : i \in 1..Len(seq)}
CountIf(seq, keep(_)) == Cardinality({i \in 1..Len(seq) : keep(seq[i])})

\* C35: in every quiescent state the two sides of every connection agree: the
\* nodes in the slots' lists are the nodes in the signals' lists, and for
\* every signal S and slot H as many nodes of H's list name S as nodes of S's
\* list name H.
C35_BothSidesAgree ==
    Quiescent =>
        LET slotList == [h \in Slots |-> IF alive[h] # "dead" THEN SlotList(h) ELSE <<>>]
            sigList == [s \in Sigs |-> IF alive[s] # "dead" THEN SigList(s) ELSE <<>>]
        IN /\ UNION {Range(slotList[h]) : h \in Slots} = UNION {Range(sigList[s]) : s \in Sigs}
           /\ \A s \in Sigs, h \in Slots :
                 LET ofSignal(n) == heap[n].signal = s
                     ofSlot(n) == heap[n].slot = h
                 IN CountIf(slotList[h], ofSignal) = CountIf(sigList[s], ofSlot)

\* H1 is linked to A by two nodes, and the latest call disconnected another
\* slot from A.
C35_Witness ==
    /\ Quiescent
    /\ Count(SlotSigs("H1"), "A") = 2 /\ Count(SigSlots("A"), "H1") = 2
    /\ call[1].op \in DisconnectOps /\ call[1].arg # "H1"
    /\ Len(before.sig["A"]) = 3 /\ Len(SigList("A")) = 2

(***************************************************************************)
(* Properties of a slot's allocator (SpecCache).                           *)
(***************************************************************************)
\* C12: a connect of a slot whose cache holds a record takes the cache's last
\* record and makes no backing allocation, and a disconnect that removes a node
\* puts one record back in the cache: after the first of repeated cycles of
\* connects and disconnects of one width the backing allocations do not grow.
C12_ReconnectFromCache ==
    /\ call[1].op \in ConnectOps /\ before.cached[call[1].arg] # <<>>
         => /\ Returned
            /\ Allocated = before.allocated
            /\ m_first[call[1].arg] = before.cached[call[1].arg][Len(before.cached[call[1].arg])]
            /\ cache[call[1].arg]
                 = SubSeq(before.cached[call[1].arg], 1, Len(before.cached[call[1].arg]) - 1)
    /\ call[1].op \in DisconnectOps /\ Count(before.slot[call[1].arg], call[1].self) > 0
         => /\ Returned
            /\ Allocated = before.allocated
            /\ Len(cache[call[1].arg]) = Len(before.cached[call[1].arg]) + 1

\* The last of MaxCycle calls connects H1 a second time with the one record its
\* cache holds, as the second cycle of connect, connect, disconnect, disconnect
\* does.
C12_Witness ==
    /\ ncalls = MaxCycle
    /\ call[1] = Call("signal_connect", "A", "H1", 0)
    /\ Returned
    /\ before.slot["H1"] = <<"A">> /\ Len(before.cached["H1"]) = 1
    /\ SlotSigs("H1") = <<"A", "A">> /\ cache["H1"] = <<>>
    /\ Allocated = Len(CtorOrder) + 1 /\ before.allocated = Allocated
    /\ cache["H2"] # <<>> /\ ~slot_connected("H2")

\* C20: H.reserve(n) does nothing when H's allocator already holds at least n
\* records: H's cache and the number of backing allocations stay as they were.
C20_ReserveNothingWhenEnough ==
    call[1].op = "slot_reserve" /\ Len(before.cached[call[1].arg]) >= call[1].x
        => /\ Returned
           /\ cache[call[1].arg] = before.cached[call[1].arg]
           /\ Allocated = before.allocated

\* The lists, the records and the caches after call c is made in this state.
WiringAfter(c) ==
    LET r == Run(Entered(1, c), 1)
    IN [heap |-> r.heap, m_first |-> r.m_first, cache |-> r.cache, err |-> r.err,
        returned |-> r.stack[1] = <<>>]

\* S.connect(H), H.connect(S) and the free helpers connect(S, H), connect(H, S);
\* likewise the disconnects.
ConnectForms(s, h) ==
    {Call("signal_connect", s, h, 0), Call("slot_connect", s, h, 0)}
      \cup {Call("connect", s, h, line) : line \in ConnectOverloads(h)}
DisconnectForms(s, h) ==
    {Call("signal_disconnect", s, h, 0), Call("slot_disconnect", s, h, 0)}
      \cup {Call("disconnect", s, h, line) : line \in DisconnectOverloads(h)}

\* C24: whichever side initiates, the result is the same: from every state,
\* S.connect(H), H.connect(S), connect(S, H) and connect(H, S) leave identical
\* slot lists, signal lists, records and caches, and so do the disconnects.
C24_EitherSideSameResult ==
    Returned =>
        \A p \in PairsCache \cup {<<"A", "B">>} :
            alive[p[1]] = "alive" /\ alive[p[2]] = "alive" =>
                /\ Cardinality({WiringAfter(c) : c \in ConnectForms(p[1], p[2])}) = 1
                /\ Cardinality({WiringAfter(c) : c \in DisconnectForms(p[1], p[2])}) = 1

\* A.connect(H2) has linked H2 in front of H1; from here disconnect(H2, A), the
\* slot-first helper, empties H2's list and connect(H1, A) gives H1 a second
\* node.
C24_Witness ==
    /\ call[1] = Call("signal_connect", "A", "H2", 0)
    /\ Returned
    /\ before.sig["A"] = <<"H1">>
    /\ SigSlots("A") = <<"H2", "H1">>
    /\ WiringAfter(Call("disconnect", "A", "H2", 85)).m_first["H2"] = Null
    /\ WiringAfter(Call("connect", "A", "H1", 53)).m_first["H1"] # m_first["H1"]

\* The records obtained from the backing allocator and not returned to it,
\* and the records slot h holds: those in its cache and those in its list.
NotReturned == {n \in Nodes : heap[n].st \in {"raw", "live"}}
HeldBy(h) == {cache[h][i] : i \in 1..Len(cache[h])} \cup NodesOfSlot(h)
HeldBefore(h) == Len(before.cached[h]) + Len(before.slot[h])

RECURSIVE SumHeldBefore(_)
SumHeldBefore(hs) ==
    IF hs = {} THEN 0
    ELSE LET h == CHOOSE x \in hs : TRUE IN HeldBefore(h) + SumHeldBefore(hs \ {h})

\* C31: in every sequence of reserve, connect, disconnect and destructions no
\* record is returned to the backing allocator twice, and between calls every
\* record obtained and not returned is held by exactly one slot that still
\* exists, in its cache or in its list; the destruction of slot H returns to
\* the backing allocator every record H held, linked or cached, and no other.
C31_NoRecordOutlivesItsSlot ==
    /\ twice = {}
    /\ err # "double_free"
    /\ Quiescent =>
          /\ NotReturned = UNION {HeldBy(h) : h \in {g \in Slots : alive[g] # "dead"}}
          /\ \A h \in Slots :
                /\ alive[h] = "dead" => cache[h] = <<>> /\ NodesOfSlot(h) = {}
                /\ Cardinality(HeldBy(h)) = Len(cache[h]) + Cardinality(NodesOfSlot(h))
                /\ \A g \in Slots \ {h} : HeldBy(h) \cap HeldBy(g) = {}
          /\ call[1].op = "slot_dtor" =>
                /\ HeldBy(call[1].arg) = {}
                /\ Cardinality(NotReturned) = SumHeldBefore(Slots) - HeldBefore(call[1].arg)
                /\ Allocated = before.allocated

\* H1 reserved the spare record, connected to A, and is destroyed holding one
\* record in its list and one in its cache.
C31_Witness ==
    /\ call[1] = Call("slot_dtor", NoObj, "H1", 0)
    /\ Quiescent
    /\ Len(before.cached["H1"]) = 1 /\ Len(before.slot["H1"]) = 1
    /\ Allocated = MaxNodes

\* seq without its first entry equal to o.
RECURSIVE WithoutFirst(_, _)
WithoutFirst(seq, o) ==
    IF seq = <<>> THEN <<>>
    ELSE IF Head(seq) = o THEN Tail(seq) ELSE <<Head(seq)>> \o WithoutFirst(Tail(seq), o)

\* The first node of seq that names signal s.
FirstOf(seq, s) == seq[CHOOSE i \in 1..Len(seq) :
                         /\ heap[seq[i]].signal = s
                         /\ \A j \in 1..(i - 1) : heap[seq[j]].signal # s]

\* C36: when H is linked to S by several nodes, H.disconnect(S) removes one
\* connection, the most recently made one.  After the call S's list is what
\* it was without its first entry for H, the other entries in their order,
\* and H's list what it was without its first entry for S.  Node by node, in
\* every state where H has several nodes of S: the call takes the first node
\* of H's list that names S, which of H's nodes is the nearest to the head of
\* S's list, out of both lists, leaves the other nodes of both lists in their
\* order, and puts the node into H's cache.
C36_DisconnectRemovesNewest ==
    /\ call[1].op = "slot_disconnect" /\ Count(before.slot[call[1].arg], call[1].self) >= 2
          => /\ Returned
             /\ SigSlots(call[1].self) = WithoutFirst(before.sig[call[1].self], call[1].arg)
             /\ SlotSigs(call[1].arg) = WithoutFirst(before.slot[call[1].arg], call[1].self)
    /\ \A p \in PairsCache :
          Quiescent /\ alive[p[1]] = "alive" /\ alive[p[2]] = "alive"
            /\ Count(SlotSigs(p[2]), p[1]) >= 2
          => LET s == p[1]
                 h == p[2]
                 victim == FirstOf(SlotList(h), s)
                 after == WiringAfter(Call("slot_disconnect", s, h, 0))
             IN /\ after.returned /\ after.err = "none"
                /\ \A i \in 1..Len(SigList(s)) :
                      heap[SigList(s)[i]].slot = h /\ SigList(s)[i] # victim
                        => \E j \in 1..(i - 1) : SigList(s)[j] = victim
                /\ WalkSl(after.heap, after.m_first[h], MaxNodes) = WithoutFirst(SlotList(h), victim)
                /\ WalkSg(after.heap, after.heap[HeadOf(s)].sg_next, MaxNodes)
                      = WithoutFirst(SigList(s), victim)
                /\ after.cache[h] = Append(cache[h], victim)

\* A was connected to H1, then to H2, then to H1 again; H1.disconnect(A) took
\* the newer connection of H1, at the head of A's list, and H2 is delivered
\* to before H1 now.
C36_Witness ==
    /\ call[1] = Call("slot_disconnect", "A", "H1", 0)
    /\ Returned
    /\ before.sig["A"] = <<"H1", "H2", "H1">> /\ before.slot["H1"] = <<"A", "A">>
    /\ SigSlots("A") = <<"H2", "H1">> /\ SlotSigs("H1") = <<"A">>

(***************************************************************************)
(* Properties of an emit whose handlers call the library (SpecHandlers).   *)
(***************************************************************************)
\* The latest call has ended: it returned or the process stopped on a fault.
Ended == stack[1] = <<>> \/ err # "none"

\* The number of times the latest emit invoked through node n of signal s.
Visited(s, n) ==
    Cardinality({i \in 1..Len(visits) : visits[i].node = n /\ visits[i].signal = s})

\* C18: an emit of S invokes, exactly once, the handler of every node that
\* stays in S's list for the whole emit, also when a handler invoked earlier in
\* the emit disconnects or destroys other slots of S.  When no handler
\* connects, the nodes in S's list after the emit were there throughout.
C18_EveryLinkedHandlerRuns ==
    /\ call[1].op = "emit"
    /\ Ended
    /\ \A h \in Plain : handler[h].op \notin ConnectOps
    => /\ Returned
       /\ \A i \in 1..Len(SigList(call[1].self)) :
            Visited(call[1].self, SigList(call[1].self)[i]) = 1
       /\ \A h \in Plain : Count(Invoked, h) >= Count(SigSlots(call[1].self), h)

\* C19: on objects that are not thread-safe, whatever connect or disconnect a
\* handler performs on S during S.emit, the emit returns, never invokes through
\* a node that was unlinked and deallocated, and never invokes the handler of a
\* slot that is no longer connected to S.
C19_EmitToleratesMutation ==
    /\ call[1].op = "emit"
    /\ ~g_mutex[call[1].self].m_is_threadsafe
    /\ \A h \in Plain : ~IsDtor(handler[h])
    => /\ Returned
       /\ stale = {}
       /\ \A i \in 1..Len(visits) : visits[i].st = "live" /\ visits[i].connected

\* Call c takes the lock of signal s: an emit, connect, disconnect() or
\* connected() of s, or the disconnect of a slot that was connected to s.
Reenters(c, s) ==
    /\ c.self = s
    /\ \/ c.op \in {"emit", "signal_connect", "signal_disconnect_all", "signal_connected"}
       \/ c.op = "slot_disconnect" /\ Count(before.sig[s], c.arg) > 0

\* C22: a thread-safe signal S holds its lock for the whole fan-out of an emit,
\* so when the handler of a slot connected to S calls emit, connect, disconnect
\* or connected on S, that call waits for the lock its own thread holds: the
\* emit does not return and no call follows it.  (A connect that cannot
\* allocate its node stops the process before it reaches the lock.)
C22_ReentrantHandlerBlocksEmit ==
    \A h \in Plain :
        /\ call[1].op = "emit"
        /\ g_mutex[call[1].self].m_is_threadsafe
        /\ Count(before.sig[call[1].self], h) > 0
        /\ Reenters(handler[h], call[1].self)
        => /\ ~Returned
           /\ stack[1] # <<>> /\ stack[1][1].op = "emit_"
           /\ g_mutex[call[1].self].owner = 1
           /\ Count(Invoked, h) = 1
           /\ ~ENABLED NextHandlers
           /\ \/ /\ err = "none" /\ step(State, 1) = State
                 /\ Top(State, 1).self = call[1].self /\ ~Top(State, 1).lg
                 /\ Top(State, 1).op \in SignalSide
              \* a connect that finds no memory for its node ends the process
              \/ err = "out_of_memory" /\ handler[h].op = "signal_connect"

\* A.emit invoked H2's handler, which emits A again and waits.
C22_Witness ==
    /\ call[1].op = "emit"
    /\ handler["H2"].op = "emit"
    /\ stack[1] # <<>>
    /\ Top(State, 1).op = "private_emit" /\ Top(State, 1).pc = "L338"
    /\ Count(Invoked, "H2") = 1

\* The emit of A that would follow this state.
NextEmit == Run([Entered(1, Call("emit", "A", NoObj, 10)) EXCEPT !.log = <<>>, !.visits = <<>>], 1)

\* C37: on objects that are not thread-safe, when H2's handler connects H1 to A
\* during A.emit and the emit returns, every node the handler made is at the
\* head of A's list, before the nodes that were there, the newest first; the
\* emit invoked through the nodes that were there, in order, and through none
\* of the new ones; and the next A.emit invokes H1's handler first, through
\* the node at the head.
C37_ConnectedDuringEmit ==
    /\ call[1].op = "emit"
    /\ ~g_mutex["A"].m_is_threadsafe
    /\ handler["H2"] = Call("signal_connect", "A", "H1", 0)
    /\ Returned
    => LET k == Count(before.sig["A"], "H2")
           list == SigList("A")
       IN /\ SigSlots("A") = [i \in 1..k |-> "H1"] \o before.sig["A"]
          /\ \A i \in 1..k : Visited("A", list[i]) = 0
          /\ Len(visits) = Len(before.sig["A"])
          /\ \A i \in 1..Len(visits) : visits[i].node = list[k + i]
          /\ Invoked = before.sig["A"]
          /\ k >= 1 => /\ NextEmit.visits # <<>> /\ NextEmit.visits[1].node = list[1]
                       /\ NextEmit.log # <<>> /\ NextEmit.log[1].slot = "H1"

\* A delivered to H1 and H2, H1's connection made by H2's handler or before;
\* the emit invoked both handlers, and H2's connected H1 once more at the head.
C37_Witness ==
    /\ call[1].op = "emit"
    /\ ~g_mutex["A"].m_is_threadsafe
    /\ handler["H2"] = Call("signal_connect", "A", "H1", 0)
    /\ Returned
    /\ before.sig["A"] = <<"H1", "H2">>
    /\ SigSlots("A") = <<"H1", "H1", "H2">>
    /\ Invoked = <<"H1", "H2">>

(***************************************************************************)
(* Properties of the thread-safety flags (SpecFlags).                      *)
(***************************************************************************)
\* C38: after the constructors, and after S.set_threadsafe(b), the mutex of
\* signal S and the mutex of its slot part have the same flag: the
\* constructor's argument, or b.  The call changes no list.
C38_BothLocksSameFlag ==
    /\ ncalls = 0 =>
          \A s \in Sigs : s_mutex[s].m_is_threadsafe = g_mutex[s].m_is_threadsafe
    /\ call[1].op = "signal_set_threadsafe"
          => /\ Returned
             /\ g_mutex[call[1].self].m_is_threadsafe = (call[1].x = 1)
             /\ s_mutex[call[1].self].m_is_threadsafe = (call[1].x = 1)
             /\ Links.sig = before.sig /\ Links.slot = before.slot

\* A.set_threadsafe(true) has set both mutexes of A, which delivers to H1;
\* B's slot part was set apart from B, and H1 is not thread-safe.
C38_Witness ==
    /\ call[1] = Call("signal_set_threadsafe", "A", NoObj, 1)
    /\ Returned
    /\ g_mutex["A"].m_is_threadsafe /\ s_mutex["A"].m_is_threadsafe
    /\ s_mutex["B"].m_is_threadsafe # g_mutex["B"].m_is_threadsafe
    /\ ~s_mutex["H1"].m_is_threadsafe
    /\ SigSlots("A") = <<"H1">>

(***************************************************************************)
(* Properties of the locks (SpecLock).                                     *)
(***************************************************************************)
SlotHolders(h) == {t \in Threads : HoldsSlot(t, h)}
SignalHolders(s) == {t \in Threads : HoldsSignal(t, s)}

\* Thread t waits: its next statement is a lock() that does not return.
Waits(t) == stack[t] # <<>> /\ err = "none" /\ step(State, t) = State

Exclusive(m, holders) ==
    IF m.m_is_threadsafe
    THEN /\ Cardinality(holders) <= 1
         /\ \A t \in holders : m.owner = t
         /\ holders = {} => m.owner = 0
    ELSE /\ m.owner = 0
         /\ \A t \in Threads : ~Waits(t)

\* C21: with the flag off, lock() and unlock() change nothing and no thread
\* ever waits; with the flag on, at most one thread at a time is between
\* lock() and the matching unlock() of the same mutex, and it is the owner.
C21_MutexToggle ==
    /\ \A h \in Slots : Exclusive(s_mutex[h], SlotHolders(h))
    /\ \A s \in Sigs : Exclusive(g_mutex[s], SignalHolders(s))

\* One thread holds H1's mutex while the other waits in lock() for it.
C21_Witness ==
    \E t \in Threads :
        /\ HoldsSlot(t, "H1")
        /\ \E u \in Threads \ {t} :
               Waits(u) /\ Top(State, u).op = "get_new_subscriber" /\ Top(State, u).self = "H1"

\* The mutexes thread t owns.
Owned(t) ==
    {<<"slot", h>> : h \in {o \in Slots : s_mutex[o].owner = t}}
      \cup {<<"signal", g>> : g \in {o \in Sigs : g_mutex[o].owner = t}}

\* Thread 1 runs A.connect(B.to_slot()) while thread 2 runs
\* B.connect(A.to_slot()), on thread-safe objects.
OppositeConnects ==
    /\ s_mutex["A"].m_is_threadsafe
    /\ call[1] = Call("signal_connect", "A", "B", 0)
    /\ call[2] = Call("signal_connect", "B", "A", 0)

C29_InitiatorHoldsLockAcrossCall ==
    \A t \in Threads :
        stack[t] # <<>> /\ err = "none" /\ s_mutex[stack[t][1].self].m_is_threadsafe =>
            LET f == Top(State, t)
                c == stack[t][1]
            IN /\ c.op = "slot_connect" /\ f.op = "signal_insert"
                    => HoldsSlot(t, c.self) /\ s_mutex[c.self].owner = t
               /\ c.op = "slot_disconnect" /\ f.op = "signal_remove"
                    => HoldsSlot(t, c.self) /\ s_mutex[c.self].owner = t

(***************************************************************************)
(* Properties of two threads (SpecMT).                                     *)
(***************************************************************************)
\* The nodes on the list of an object that exists.
Listed ==
    UNION {{SigList(s)[i] : i \in 1..Len(SigList(s))} : s \in {g \in Sigs : alive[g] # "dead"}}
      \cup UNION {{SlotList(h)[i] : i \in 1..Len(SlotList(h))} : h \in {g \in Slots : alive[g] # "dead"}}

\* C3: in every interleaving of destructors, connect, disconnect and emit on
\* thread-safe objects, no node is used after it was deallocated and no list
\* contains a deallocated node.
C3_NoUseAfterDeallocation ==
    /\ err # "use_after_free"
    /\ stale = {}
    /\ \A n \in Listed : heap[n].st = "live"

\* The nodes in the list of a signal that is not destroyed yet.
SigListed ==
    UNION {{SigList(s)[i] : i \in 1..Len(SigList(s))} : s \in {g \in Sigs : alive[g] # "dead"}}

\* Frame f's next statement hands its node to the allocator: deallocate in
\* slot::disconnect (signals.inl:147, 180), deallocate_force in ~slot (88).
ToAllocator(f) ==
    \/ f.op = "slot_dtor" /\ f.pc = "L88"
    \/ f.op = "slot_disconnect_all" /\ f.pc = "L147"
    \/ f.op = "slot_disconnect" /\ f.pc = "L180"

\* C27: whichever of disconnect, slot destruction or signal destruction removes
\* a node, the node is in no slot list and in no signal list when it is handed
\* to the allocator; detach, which unthreads the slot side and deallocates,
\* finds the node in no signal list.
C27_UnthreadedBeforeDeallocated ==
    \A t \in Threads :
        stack[t] # <<>> /\ err = "none" =>
            LET f == Top(State, t)
            IN /\ ToAllocator(f) => f.cur \notin Listed
               /\ f.op = "slot_detach" /\ f.pc = "L207" => f.n \notin SigListed

\* C28: while a signal is destroyed, every node of its list is out of its
\* slot's list when detach has deallocated it, and no node is deallocated
\* twice; when the destructor has returned and no call is in progress, no
\* constructed record names the signal.
C28_SourceDestructionFreesOnce ==
    \A t \in Threads :
        call[t].op = "signal_dtor" =>
            /\ twice = {}
            /\ err # "double_free"
            /\ stack[t] # <<>> /\ Top(State, t).op = "slot_detach" /\ Top(State, t).pc = "L216"
                 => Top(State, t).n \notin Listed /\ heap[Top(State, t).n].st # "live"
            /\ Quiescent => NodesOfSignal(call[t].self) = {}

\* Frame f's next statement reads or writes m_first, the slot_list_link of a
\* node or the allocator cache of slot f.self.
AccessesSlot(f) ==
    \/ f.op = "get_new_subscriber" /\ f.pc = "L112"
    \/ f.op = "slot_disconnect_all" /\ f.pc \in {"L138", "L147"}
    \/ f.op = "slot_disconnect" /\ f.pc \in {"L167", "L168", "L172", "L180"}
    \/ f.op = "slot_reserve" /\ f.pc = "L194"
    \/ f.op = "slot_detach" /\ f.pc = "L207"
    \/ f.op = "slot_dtor" /\ f.pc \in {"L79", "L88"}

\* Frame f's next statement reads or writes m_head or the signal_list_link of a
\* node of signal f.self.
AccessesSignal(f) ==
    \/ f.op = "signal_insert" /\ f.pc = "L297"
    \/ f.op = "signal_remove" /\ f.pc = "L315"
    \/ f.op = "signal_disconnect_all" /\ f.pc \in {"L277", "L278", "L288"}
    \/ f.op = "private_emit" /\ f.pc \in {"L340", "L341"}
    \/ f.op = "signal_connected" /\ f.pc = "L365"

\* The records other than n whose links the unbind of n writes.
Neighbours(touches, n) == {touches[i] : i \in 1..Len(touches)} \ {n}

SlotTeardowns == {"slot_disconnect", "slot_disconnect_all", "slot_dtor"}
SignalTeardowns == {"signal_disconnect_all", "signal_dtor"}

\* C32: on thread-safe objects a disconnect or destruction of slot H on one
\* thread and a disconnect() or destruction of signal S on the other both
\* return: the two threads never both wait, one owning H's mutex and waiting
\* for S's, the other owning S's mutex and waiting for H's.
C32_TeardownsNeverDeadlock ==
    \A t \in Threads :
        \A u \in Threads \ {t} :
            call[t].op \in SlotTeardowns /\ call[u].op \in SignalTeardowns =>
                ~(/\ Waits(t) /\ Waits(u)
                  /\ HoldsSlot(t, call[t].arg) /\ Top(State, t).op = "signal_remove"
                  /\ HoldsSignal(u, call[u].self) /\ Top(State, u).op = "slot_detach")

\* C33: when H.disconnect() or ~H is about to call current->signal->remove, the
\* node names a signal, whatever a concurrent connect of H or disconnect() of
\* the signal has done so far: remove is never called through a null pointer.
C33_RemoveThroughNonNullSignal ==
    /\ err # "null_deref"
    /\ \A t \in Threads :
          stack[t] # <<>> /\ err = "none" =>
              LET f == Top(State, t)
              IN \/ f.op = "slot_disconnect_all" /\ f.pc = "L145"
                 \/ f.op = "slot_dtor" /\ f.pc = "L86"
                 => heap[f.cur].signal # NoObj

\* Thread t is in function op of an object that has not been destroyed.
Inside(t, op) ==
    /\ err = "none" /\ stack[t] # <<>>
    /\ Top(State, t).op = op
    /\ alive[Top(State, t).self] # "dead"

\* The fields of the records other than the slot-list links, and other than
\* the signal-list links and the signal.
SlotLinksApart(hp) ==
    [m \in Ptrs |-> [slot |-> hp[m].slot, signal |-> hp[m].signal,
                     sg_prev |-> hp[m].sg_prev, sg_next |-> hp[m].sg_next]]
SignalLinksApart(hp) ==
    [m \in Ptrs |-> [slot |-> hp[m].slot, st |-> hp[m].st,
                     sl_prev |-> hp[m].sl_prev, sl_next |-> hp[m].sl_next]]

\* C39: slot::detach(node), statement by statement, in every state a thread
\* is in it.  When m_deleted is set the call returns and nothing else changes.
\* Otherwise it goes on to take the slot's lock, and under the lock it moves
\* m_first to node's successor when node was the head, takes node out of the
\* slot's list (its neighbours are joined, its own links nulled) and appends
\* it, destroyed, to the slot's cache; no signal-list link, no signal or slot
\* field, no other slot's head or cache and no flag changes.
C39_DetachUnthreadsAndCaches ==
    \A t \in Threads :
        Inside(t, "slot_detach") =>
            LET f == Top(State, t)
                h == f.self
                n == f.n
                r == step(State, t)
            IN /\ f.pc = "L200" /\ s_deleted[h] => r = Pop(State, t)
               /\ f.pc = "L200" /\ ~s_deleted[h] => r = WithTop(State, t, [f EXCEPT !.pc = "L205"])
               /\ f.pc \in {"L205", "L216"}
                     => r.heap = heap /\ r.m_first = m_first /\ r.cache = cache
               /\ f.pc = "L207" /\ r.err = "none"
                     => /\ r.m_first = [m_first EXCEPT
                                          ![h] = IF n = @ THEN heap[n].sl_next ELSE @]
                        /\ r.cache = [cache EXCEPT ![h] = Append(@, n)]
                        /\ SlotLinksApart(r.heap) = SlotLinksApart(heap)
                        /\ r.heap[n].sl_prev = Null /\ r.heap[n].sl_next = Null
                        /\ r.heap[n].st = "raw"
                        /\ \A m \in Ptrs \ {n} :
                              /\ r.heap[m].st = heap[m].st
                              /\ r.heap[m].sl_next
                                    = IF m = heap[n].sl_prev THEN heap[n].sl_next ELSE heap[m].sl_next
                              /\ r.heap[m].sl_prev
                                    = IF m = heap[n].sl_next THEN heap[n].sl_prev ELSE heap[m].sl_prev
                        /\ WalkSl(r.heap, r.m_first[h], MaxNodes) = WithoutFirst(SlotList(h), n)
                        /\ r.s_deleted = s_deleted /\ r.g_deleted = g_deleted
                        /\ r.s_mutex = s_mutex /\ r.g_mutex = g_mutex

\* A delivered to H2 and H1.  A.disconnect() has detached H2's node, which
\* lies in H2's cache, and enters detach for H1's node, while ~H1 on the
\* other thread has set H1's m_deleted.
C39_Witness ==
    /\ call[1].op = "signal_disconnect_all" /\ call[2].op = "slot_dtor"
    /\ Inside(1, "slot_detach")
    /\ Top(State, 1).pc = "L200" /\ Top(State, 1).self = "H1" /\ s_deleted["H1"]
    /\ m_first["H2"] = Null /\ Len(cache["H2"]) = 1
    /\ heap[cache["H2"][1]].st = "raw" /\ heap[cache["H2"][1]].slot = "H2"

\* C40: signal::remove(node), statement by statement, in every state a
\* thread is in it.  When node's signal is not this signal, or m_deleted is
\* set, the call returns and nothing else changes.  Otherwise it takes the
\* signal's lock, and under the lock it takes node out of the signal's list
\* (its neighbours are joined, its own links nulled) and clears node's
\* signal; no slot-list link, no slot's head or cache changes, and every
\* slot's list is what it was.
C40_RemoveUnthreadsSignalSide ==
    \A t \in Threads :
        Inside(t, "signal_remove") =>
            LET f == Top(State, t)
                s == f.self
                n == f.n
                r == step(State, t)
                quiet == [r EXCEPT !.stale = stale]
            IN /\ f.pc = "L312" /\ r.err = "none" /\ heap[n].signal # s => quiet = Pop(State, t)
               /\ f.pc = "L312" /\ r.err = "none" /\ heap[n].signal = s
                     => quiet = WithTop(State, t, [f EXCEPT !.pc = "L312b"])
               /\ f.pc = "L312b" /\ g_deleted[s] => r = Pop(State, t)
               /\ f.pc = "L312b" /\ ~g_deleted[s] => r = WithTop(State, t, [f EXCEPT !.pc = "L314"])
               /\ f.pc \in {"L314", "L316"}
                     => r.heap = heap /\ r.m_first = m_first /\ r.cache = cache
               /\ f.pc = "L315" /\ r.err = "none"
                     => /\ r.m_first = m_first /\ r.cache = cache
                        /\ SignalLinksApart(r.heap) = SignalLinksApart(heap)
                        /\ r.heap[n].signal = NoObj
                        /\ r.heap[n].sg_prev = Null /\ r.heap[n].sg_next = Null
                        /\ \A m \in Ptrs \ {n} :
                              /\ r.heap[m].signal = heap[m].signal
                              /\ r.heap[m].sg_next
                                    = IF m = heap[n].sg_prev THEN heap[n].sg_next ELSE heap[m].sg_next
                              /\ r.heap[m].sg_prev
                                    = IF m = heap[n].sg_next THEN heap[n].sg_prev ELSE heap[m].sg_prev
                        /\ WalkSg(r.heap, r.heap[HeadOf(s)].sg_next, MaxNodes)
                              = WithoutFirst(SigList(s), n)
                        /\ \A h \in Slots : WalkSl(r.heap, r.m_first[h], MaxNodes) = SlotList(h)
                        /\ r.s_deleted = s_deleted /\ r.g_deleted = g_deleted
                        /\ r.s_mutex = s_mutex /\ r.g_mutex = g_mutex

\* H1 was linked to A by two nodes.  H1.disconnect() has had the first one
\* removed from A's list and put it into H1's cache, and is in A.remove for
\* the second one, whose signal A.disconnect() on the other thread has
\* cleared.
C40_Witness ==
    /\ call[1].op = "signal_disconnect_all" /\ call[2].op = "slot_disconnect_all"
    /\ Inside(2, "signal_remove")
    /\ Top(State, 2).pc = "L312" /\ heap[Top(State, 2).n].signal = NoObj
    /\ Len(cache["H1"]) = 1
    /\ heap[cache["H1"][1]].st = "raw" /\ heap[cache["H1"][1]].slot = "H1"
    /\ SigList("A") = <<>>

\* C4: no node is deallocated twice: in every interleaving of slot teardown,
\* source teardown and disconnect each node reaches the allocator once.
C4_DeallocatedOnce == twice = {} /\ err # "double_free"

====
